---- MODULE Spec2Model ----
(***************************************************************************)
(* The LoRa link protocol engine of src/lora_protocol.py                   *)
(* (LoRaProtocolHandler): fragmentation and reassembly, the three          *)
(* priority send queues, the send loop, the receive path, and the          *)
(* acknowledgement sweep.                                                  *)
(*                                                                         *)
(* Time is the reading of time.time() in whole seconds.  Strings are       *)
(* sequences of code points, byte strings sequences of 0..255, a hex       *)
(* string a sequence of digits 0..15.                                      *)
(***************************************************************************)
EXTENDS Integers, Sequences, FiniteSets, TLC

\* ------------------------------------------------------------------------
\* Program constants (class attributes of LoRaProtocolHandler)
MAX_PACKET_SIZE == 230
HEADER_SIZE == 20
RETRY_LIMIT == 3
ACK_TIMEOUT == 2
STATS_WINDOW == 100

\* Constants of the specification that the code does not define
HIGH_BURST == 4
MED_BURST == 2

\* MAX_IN_FLIGHT of the specification is a configuration value (default
\* 1024); the handler is taken here with the value configured to 2
MAX_IN_FLIGHT == 2

\* ------------------------------------------------------------------------
\* Bounds of the model
\* Bounds of the model, per specification: the calls of send_message the
\* application makes, the last clock reading, the lines the receive loop
\* reads
MaxSends == 3
MaxClock == 1
PrioSends == 2
PrioClock == 3
FragSends == 1
MaxRecv == 3
RetrySends == 1
RetryClock == 12

\* ------------------------------------------------------------------------
\* class MessagePriority(Enum); iteration follows the definition order
MessagePriority == <<"HIGH", "MEDIUM", "LOW">>

Priorities == {MessagePriority[i] : i \in DOMAIN MessagePriority}

PriorityValue(p) == CHOOSE i \in DOMAIN MessagePriority : MessagePriority[i] = p

\* ------------------------------------------------------------------------
\* The strings the application submits.  120 'x', 121 'y', 233 e-acute
\* (two bytes in UTF-8).  Lengths sit on the fragment boundaries.
Repeat(c, n) == [i \in 1..n |-> c]

\* Messages[1]: 1 byte.  Messages[2]: MAX_PAYLOAD bytes.  Messages[3]:
\* MAX_PAYLOAD + 1 bytes, the e-acute astride the first fragment boundary.
\* Messages[4]: three fragments, both boundaries inside a character.
\* Messages[5]: the empty string.
Messages ==
    << <<120>>,
       Repeat(121, MAX_PACKET_SIZE - HEADER_SIZE),
       Repeat(120, MAX_PACKET_SIZE - HEADER_SIZE - 1) \o <<233>>,
       Repeat(120, MAX_PACKET_SIZE - HEADER_SIZE - 1)
           \o Repeat(233, MAX_PACKET_SIZE - HEADER_SIZE - 1) \o <<121>>,
       <<>> >>

\* str.encode(): UTF-8 of code points below 2048
Utf8Char(c) == IF c < 128 THEN <<c>> ELSE <<192 + (c \div 64), 128 + (c % 64)>>

\* The recursions below halve their range, so that their depth stays
\* logarithmic in the length of the string.
RECURSIVE Utf8EncodeRange(_, _, _)
Utf8EncodeRange(s, lo, hi) ==
    IF lo > hi THEN <<>>
    ELSE IF lo = hi THEN Utf8Char(s[lo])
    ELSE LET mid == (lo + hi) \div 2
         IN  Utf8EncodeRange(s, lo, mid) \o Utf8EncodeRange(s, mid + 1, hi)

Utf8Encode(s) == Utf8EncodeRange(s, 1, Len(s))

\* bytes.decode(): ok is FALSE for a UnicodeDecodeError.  A byte 10xxxxxx
\* continues a character, so a range is cut only in front of another byte.
IsContinuation(x) == x \div 64 = 2

DecodeError == [ok |-> FALSE, text |-> <<>>]

JoinDecoded(left, right) ==
    IF left.ok /\ right.ok
    THEN [ok |-> TRUE, text |-> left.text \o right.text]
    ELSE DecodeError

RECURSIVE Utf8DecodeRange(_, _, _)
Utf8DecodeRange(b, lo, hi) ==
    IF lo > hi THEN [ok |-> TRUE, text |-> <<>>]
    ELSE IF IsContinuation(b[lo]) THEN DecodeError
    ELSE IF b[lo] < 128 /\ lo = hi THEN [ok |-> TRUE, text |-> <<b[lo]>>]
    ELSE IF b[lo] >= 128 /\ hi <= lo + 1 THEN
        IF b[lo] >= 194 /\ b[lo] < 224 /\ hi = lo + 1 /\ IsContinuation(b[hi])
        THEN [ok |-> TRUE, text |-> <<(b[lo] - 192) * 64 + (b[hi] - 128)>>]
        ELSE DecodeError
    ELSE LET m == (lo + hi + 1) \div 2
             cut == IF IsContinuation(b[m]) /\ m < hi THEN m + 1 ELSE m
             left == Utf8DecodeRange(b, lo, cut - 1)
             right == Utf8DecodeRange(b, cut, hi)
         IN  JoinDecoded(left, right)

Utf8Decode(b) == Utf8DecodeRange(b, 1, Len(b))

\* zlib.crc32 as a checksum of the bytes and their positions (16 bits kept:
\* TLC's integers end at 2^31)
RECURSIVE Crc32Range(_, _, _)
Crc32Range(b, lo, hi) ==
    IF lo > hi THEN 0
    ELSE IF lo = hi THEN ((2 * lo + 1) * (b[lo] + 1)) % 65536
    ELSE LET mid == (lo + hi) \div 2
         IN  (Crc32Range(b, lo, mid) + Crc32Range(b, mid + 1, hi)) % 65536

Crc32(b) == Crc32Range(b, 1, Len(b))

\* hash(message) & 0xFFFFFFFF: a function of the text alone (16 bits kept)
RECURSIVE HashRange(_, _, _)
HashRange(s, lo, hi) ==
    IF lo > hi THEN 7
    ELSE IF lo = hi THEN ((3 * lo + 5) * (s[lo] + 11)) % 65536
    ELSE LET mid == (lo + hi) \div 2
         IN  (HashRange(s, lo, mid) + 31 * HashRange(s, mid + 1, hi)) % 65536

Hash32(s) == HashRange(s, 1, Len(s))

\* bytes.hex() and bytes.fromhex()
Hex(b) ==
    [i \in 1..(2 * Len(b)) |->
        IF i % 2 = 1 THEN b[(i + 1) \div 2] \div 16 ELSE b[i \div 2] % 16]

FromHex(h) == [i \in 1..(Len(h) \div 2) |-> 16 * h[2 * i - 1] + h[2 * i]]

\* ------------------------------------------------------------------------
\* The conversions above, tabulated once over the strings of the model (the
\* same values, read from a table instead of recomputed)
EncodedMessages == [i \in DOMAIN Messages |-> Utf8Encode(Messages[i])]

encode(message) ==
    IF \E i \in DOMAIN Messages : Messages[i] = message
    THEN EncodedMessages[CHOOSE i \in DOMAIN Messages : Messages[i] = message]
    ELSE Utf8Encode(message)

DecodeTable == [b \in {EncodedMessages[i] : i \in DOMAIN Messages} |-> Utf8Decode(b)]

decode(b) == IF b \in DOMAIN DecodeTable THEN DecodeTable[b] ELSE Utf8Decode(b)

HashTable == [i \in DOMAIN Messages |-> Hash32(Messages[i])]

hash(message) ==
    IF \E i \in DOMAIN Messages : Messages[i] = message
    THEN HashTable[CHOOSE i \in DOMAIN Messages : Messages[i] = message]
    ELSE Hash32(message)

\* ------------------------------------------------------------------------
\* _fragment_message: the slices data[start:end] of the encoded message
Min(a, b) == IF a < b THEN a ELSE b

PayloadSize == MAX_PACKET_SIZE - HEADER_SIZE

\* a fragment count that is not the minimum: one more frame whenever the
\* length is a multiple of the payload size
TotalFragmentsRoundedUp(data) == Len(data) \div PayloadSize + 1

TotalFragments(data) == (Len(data) + PayloadSize - 1) \div PayloadSize

FragmentPayload(data, i) ==
    SubSeq(data, i * PayloadSize + 1, Min(i * PayloadSize + PayloadSize, Len(data)))

KnownPayloads ==
    UNION {{FragmentPayload(EncodedMessages[m], i) :
                i \in 0..(TotalFragments(EncodedMessages[m]) - 1)} : m \in DOMAIN Messages}

CrcTable == [b \in KnownPayloads |-> Crc32(b)]

crc32(b) == IF b \in KnownPayloads THEN CrcTable[b] ELSE Crc32(b)

\* The packets of one message, fragment i at position i + 1.  Every packet
\* is built with priority MEDIUM, rssi 0 and snr 0.
FragmentMessage(message_id, message, clock) ==
    LET data == encode(message)
        total_fragments == TotalFragments(data)
    IN  [k \in 1..total_fragments |->
            [message_id |-> message_id,
             fragment_id |-> k - 1,
             total_fragments |-> total_fragments,
             priority |-> "MEDIUM",
             payload |-> FragmentPayload(data, k - 1),
             crc |-> crc32(FragmentPayload(data, k - 1)),
             rssi |-> 0,
             snr |-> 0,
             timestamp |-> clock]]

\* ------------------------------------------------------------------------
\* queue.PriorityQueue: a heapq list of tuples (priority.value, packet).
\* Tuples compare item by item; LoRaPacket is a dataclass without order, so
\* two tuples of equal priority value compare equal when their packets are
\* equal and raise TypeError ("E") when they are not.
TupleLess(a, b) ==
    IF a[1] # b[1] THEN (IF a[1] < b[1] THEN "T" ELSE "F")
    ELSE IF a[2] = b[2] THEN "F"
    ELSE "E"

Swap(heap, i, j) == [heap EXCEPT ![i] = heap[j], ![j] = heap[i]]

\* heapq's siftdown(heap, startpos, pos), positions counted from 0
RECURSIVE SiftDown(_, _, _)
SiftDown(heap, startpos, pos) ==
    IF pos <= startpos THEN [queue |-> heap, raised |-> FALSE]
    ELSE LET parentpos == (pos - 1) \div 2
             cmp == TupleLess(heap[pos + 1], heap[parentpos + 1])
         IN  IF cmp = "E" THEN [queue |-> heap, raised |-> TRUE]
             ELSE IF cmp = "F" THEN [queue |-> heap, raised |-> FALSE]
             ELSE SiftDown(Swap(heap, pos + 1, parentpos + 1), startpos, parentpos)

\* heapq's siftup(heap, pos): the smaller child moves up until a leaf, then
\* the item sifts down from there
RECURSIVE SiftUp(_, _)
SiftUp(heap, pos) ==
    LET endpos == Len(heap)
        childpos == 2 * pos + 1
    IN  IF pos >= endpos \div 2 THEN SiftDown(heap, 0, pos)
        ELSE IF childpos + 1 < endpos
        THEN LET cmp == TupleLess(heap[childpos + 1], heap[childpos + 2])
             IN  IF cmp = "E" THEN [queue |-> heap, raised |-> TRUE]
                 ELSE LET child == IF cmp = "T" THEN childpos ELSE childpos + 1
                      IN  SiftUp(Swap(heap, child + 1, pos + 1), child)
        ELSE SiftUp(Swap(heap, childpos + 1, pos + 1), childpos)

\* PriorityQueue.put: heappush appends the item and sifts it; the item stays
\* in the list when the comparison raises
QueuePut(heap, item) == SiftDown(Append(heap, item), 0, Len(heap))

\* PriorityQueue.get_nowait on a queue that is not empty: heappop.  When the
\* comparison raises, the item taken from the root is lost.
QueueGet(heap) ==
    LET n == Len(heap)
        lastelt == heap[n]
        rest == SubSeq(heap, 1, n - 1)
    IN  IF n = 1 THEN [queue |-> <<>>, raised |-> FALSE, item |-> lastelt]
        ELSE LET sifted == SiftUp([rest EXCEPT ![1] = lastelt], 0)
             IN  [queue |-> sifted.queue, raised |-> sifted.raised, item |-> heap[1]]

\* the puts of send_message's loop, stopped by the first one that raises
RECURSIVE PutAll(_, _, _, _)
PutAll(heap, value, fragments, k) ==
    IF k > Len(fragments) THEN [queue |-> heap, raised |-> FALSE]
    ELSE LET r == QueuePut(heap, <<value, fragments[k]>>)
         IN  IF r.raised THEN r ELSE PutAll(r.queue, value, fragments, k + 1)

\* ------------------------------------------------------------------------
\* State.  Two nodes run one LoRaProtocolHandler each; every attribute of
\* the handler is a function of the node.
Nodes == {"A", "B"}

Peer(n) == IF n = "A" THEN "B" ELSE "A"

VARIABLES
    now,                 \* the reading of time.time()
    running,             \* self.running
    send_queue,          \* self.send_queue: priority -> heap list
    receive_queue,       \* self.receive_queue
    pending_acks,        \* self.pending_acks, in insertion order
    received_fragments,  \* self.received_fragments
    message_buffer,      \* self.message_buffer
    signal_stats,        \* self.signal_stats
    air,                 \* the lines each node's radio has written
    wire,                \* the same lines, in the order they were written
    call,                \* the application's latest call of send_message
    sends,               \* calls of send_message the application has made
    sleep_until,         \* the send loop sleeps until this clock reading
    last_iter,           \* what the latest iteration of the send loop did
    burst,               \* frames sent in a row from one queue, a lower one waiting
    delivered_ids        \* per entry of receive_queue: its id, the fragment that completed it

\* The MeshNetworkManager that runs on top of handler A (src/mesh_network.py)
VARIABLES
    mesh_running,        \* self.running of the manager
    nodes,               \* self.nodes: the Node records, in insertion order
    routing_table,       \* self.routing_table: destination -> next hop
    network_graph,       \* self.network_graph: its nodes and its edges
    stats,               \* self.stats
    handed,              \* the messages given to self.lora.send_message, in order
    last_op,             \* the latest operation of the manager and what it returned
    ops                  \* operations the manager has performed

mesh_vars == <<mesh_running, nodes, routing_table, network_graph, stats, handed,
               last_op, ops>>

\* A mesh of managers within radio range of each other
VARIABLES
    net,                 \* the state of each manager of the mesh
    ether                \* the envelopes the managers have broadcast

net_vars == <<net, ether>>

\* The threads of the manager and of its link handler, and the serial port
VARIABLES
    threads,             \* where each thread is: not started, at its while test, in its body, exited
    serial_open,         \* self.serial is open
    stop_pc,             \* the statement the caller of stop() has reached
    closed_io,           \* the threads that have used the serial port after its close
    sweep,               \* the walk of _check_pending_acks the send thread of A is in
    rx,                  \* the frame the receive thread of A has in hand between lines 269 and 270
    thread_errors,       \* the exceptions the loops of A have caught
    acked,               \* the ids whose tracker the receive thread of A has cancelled at line 270
    arrived              \* the frames _handle_packet of B was given with signal readings: rssi, snr, crc valid

race_vars == <<sweep, rx, thread_errors, acked>>

stats_vars == <<arrived>>

task_vars == <<threads, serial_open, stop_pc, closed_io, race_vars, stats_vars>>

vars == <<now, running, send_queue, receive_queue, pending_acks,
          received_fragments, message_buffer, signal_stats, air, wire, call, sends,
          sleep_until, last_iter, burst, delivered_ids, mesh_vars, net_vars,
          task_vars>>

\* The manager of the model has the id node_id; the other ids are those
\* that messages can name.
node_id == "S"

MeshIds == {"S", "X", "Y"}

\* MeshNetworkManager.__init__
MeshInit ==
    /\ mesh_running = FALSE
    /\ nodes = <<>>
    /\ routing_table = <<>>
    /\ network_graph = [nodes |-> {}, edges |-> {}]
    /\ stats = [messages_forwarded |-> 0, route_updates |-> 0,
                active_nodes |-> 0, total_bandwidth |-> 0]
    /\ handed = <<>>
    /\ last_op = [op |-> "none"]
    /\ ops = 0

\* MeshNetworkManager.__init__ for a manager of the mesh
NewManager ==
    [running |-> FALSE,
     nodes |-> <<>>,
     routing_table |-> <<>>,
     network_graph |-> [nodes |-> {}, edges |-> {}],
     stats |-> [messages_forwarded |-> 0, route_updates |-> 0,
                active_nodes |-> 0, total_bandwidth |-> 0],
     handed |-> <<>>]

NetInit ==
    /\ net = [id \in MeshIds |-> NewManager]
    /\ ether = {}

\* The threads that start() of the manager and of its handler create
MeshTasks == {"discovery", "heartbeat", "cleanup"}

LinkTasks == {"send", "receive"}

Tasks == MeshTasks \cup LinkTasks

\* no thread has been created; serial.Serial(...) of line 54 has opened the port
TaskInit ==
    /\ threads = [t \in Tasks |-> "none"]
    /\ serial_open = TRUE
    /\ stop_pc = "idle"
    /\ closed_io = {}
    /\ sweep = [active |-> FALSE, items |-> <<>>, k |-> 1, clock |-> 0]
    /\ rx = [active |-> FALSE, message_id |-> <<>>]
    /\ thread_errors = {}
    /\ acked = {}
    /\ arrived = <<>>

\* dict operations; pending_acks keeps Python's insertion order because
\* _check_pending_acks walks list(self.pending_acks.items())
Put(f, k, v) == [x \in (DOMAIN f) \cup {k} |-> IF x = k THEN v ELSE f[x]]

Del(f, k) == [x \in (DOMAIN f) \ {k} |-> f[x]]

Keys(items) == {items[i].message_id : i \in DOMAIN items}

AckSet(items, k, t) ==
    IF k \in Keys(items)
    THEN [i \in DOMAIN items |->
            IF items[i].message_id = k THEN [message_id |-> k, timestamp |-> t]
            ELSE items[i]]
    ELSE Append(items, [message_id |-> k, timestamp |-> t])

AckDel(items, k) == SelectSeq(items, LAMBDA e : e.message_id # k)

NoCall ==
    [active |-> FALSE, done |-> FALSE, raised |-> FALSE, message |-> <<>>,
     priority |-> "NONE", message_id |-> <<>>, fragments |-> <<>>, next |-> 1,
     fresh |-> FALSE]

IdleIter == [from |-> "NONE", sent |-> FALSE, at_start |-> {}, at_select |-> {},
             message_id |-> <<>>, fragment_id |-> -1]

Init ==
    /\ now = 0
    /\ running = [n \in Nodes |-> FALSE]
    /\ send_queue = [n \in Nodes |-> [p \in Priorities |-> <<>>]]
    /\ receive_queue = [n \in Nodes |-> <<>>]
    /\ pending_acks = [n \in Nodes |-> <<>>]
    /\ received_fragments = [n \in Nodes |-> <<>>]
    /\ message_buffer = [n \in Nodes |-> <<>>]
    /\ signal_stats = [n \in Nodes |->
            [rssi |-> <<>>, snr |-> <<>>, packet_loss |-> 0, retransmissions |-> 0]]
    /\ air = [n \in Nodes |-> {}]
    /\ wire = [n \in Nodes |-> <<>>]
    /\ call = [n \in Nodes |-> NoCall]
    /\ sends = [n \in Nodes |-> 0]
    /\ sleep_until = [n \in Nodes |-> 0]
    /\ last_iter = [n \in Nodes |-> IdleIter]
    /\ burst = [n \in Nodes |-> [from |-> "NONE", count |-> 0]]
    /\ delivered_ids = [n \in Nodes |-> <<>>]
    /\ MeshInit
    /\ NetInit
    /\ TaskInit

\* ------------------------------------------------------------------------
\* send_message

MessageId(clock, message) == <<clock, hash(message)>>

\* lines 105-116 run in one piece, as _check_pending_acks runs them inside
\* the send thread: the new id, the fragments, the buffer entry, the puts
\* (r: what the puts leave of the queue)
SendMessageResult(queues, buffer, message, priority, message_id, r) ==
    [send_queue |-> [queues EXCEPT ![priority] = r.queue],
     message_buffer |-> Put(buffer, message_id, message),
     raised |-> r.raised,
     message_id |-> message_id]

SendMessagePuts(queues, buffer, clock, message, priority, message_id) ==
    SendMessageResult(queues, buffer, message, priority, message_id,
        PutAll(queues[priority], PriorityValue(priority),
               FragmentMessage(message_id, message, clock), 1))

SendMessageOp(queues, buffer, clock, message, priority) ==
    SendMessagePuts(queues, buffer, clock, message, priority,
                    MessageId(clock, message))

\* one put of the loop at lines 112-113, made by the application's thread
PutStep(n, c) ==
    LET r == QueuePut(send_queue[n][c.priority],
                      <<PriorityValue(c.priority), c.fragments[c.next]>>)
        last == r.raised \/ c.next = Len(c.fragments)
    IN  /\ send_queue' = [send_queue EXCEPT ![n][c.priority] = r.queue]
        /\ call' = [call EXCEPT ![n] =
                [c EXCEPT !.active = ~last, !.done = last, !.raised = r.raised,
                          !.next = c.next + 1]]

\* The application calls send_message(message, priority): lines 105-109 and
\* the first put.  The other puts follow one by one (PutFragment), so the
\* send loop may take a fragment in between.
SendMessage(n, pool, priorities, limit) ==
    \E i \in pool, priority \in priorities :
        LET message == Messages[i]
            message_id == MessageId(now, message)
            c == [active |-> TRUE, done |-> FALSE, raised |-> FALSE,
                  message |-> message, priority |-> priority,
                  message_id |-> message_id,
                  fragments |-> FragmentMessage(message_id, message, now),
                  next |-> 1,
                  fresh |-> sends[n] = 0 /\ ~running[n]]
        IN  /\ ~call[n].active
            /\ sends[n] < limit
            /\ sends' = [sends EXCEPT ![n] = @ + 1]
            /\ message_buffer' = [message_buffer EXCEPT ![n] = Put(@, message_id, message)]
            /\ IF c.fragments = <<>>
               THEN /\ call' = [call EXCEPT ![n] = [c EXCEPT !.active = FALSE, !.done = TRUE]]
                    /\ UNCHANGED send_queue
               ELSE PutStep(n, c)
            /\ UNCHANGED <<mesh_vars, net_vars, task_vars, now, running, receive_queue, pending_acks,
                           received_fragments, signal_stats, air, wire, sleep_until,
                           last_iter, burst, delivered_ids>>

PutFragment(n) ==
    /\ call[n].active
    /\ PutStep(n, call[n])
    /\ UNCHANGED <<mesh_vars, net_vars, task_vars, now, running, receive_queue, pending_acks, received_fragments,
                   message_buffer, signal_stats, air, wire, sends, sleep_until,
                   last_iter, burst, delivered_ids>>

\* a sweep that retransmits on the LOW queue
RetransmitLow == "LOW"

\* line 310: the priority argument of the send_message call of the sweep
RetransmitPriority == "HIGH"

\* ------------------------------------------------------------------------
\* _check_pending_acks: the walk over list(self.pending_acks.items()).  st
\* carries the attributes the walk changes; a send_message that raises ends
\* the walk before the del of line 311.
RECURSIVE CheckAcksFrom(_, _, _, _)

\* lines 308-311 for one entry that timed out and is buffered; r is what
\* send_message(message, HIGH) returns
Retransmit(items, k, clock, st, message_id, r) ==
    IF r.raised
    THEN [st EXCEPT !.send_queue = r.send_queue,
                    !.message_buffer = r.message_buffer,
                    !.retransmissions = @ + 1,
                    !.raised = TRUE]
    ELSE CheckAcksFrom(items, k + 1, clock,
             [st EXCEPT !.send_queue = r.send_queue,
                        !.message_buffer = r.message_buffer,
                        !.retransmissions = @ + 1,
                        !.pending_acks = AckDel(@, message_id)])

CheckAcksFrom(items, k, clock, st) ==
    IF k > Len(items) THEN st
    ELSE IF ~(clock - items[k].timestamp > ACK_TIMEOUT)
    THEN CheckAcksFrom(items, k + 1, clock, st)
    ELSE IF items[k].message_id \notin DOMAIN st.message_buffer
    THEN CheckAcksFrom(items, k + 1, clock,
             [st EXCEPT !.pending_acks = AckDel(@, items[k].message_id)])
    ELSE Retransmit(items, k, clock, st, items[k].message_id,
             SendMessageOp(st.send_queue, st.message_buffer, clock,
                           st.message_buffer[items[k].message_id],
                           RetransmitPriority))

CheckPendingAcks(n) ==
    CheckAcksFrom(pending_acks[n], 1, now,
        [send_queue |-> send_queue[n],
         message_buffer |-> message_buffer[n],
         pending_acks |-> pending_acks[n],
         retransmissions |-> signal_stats[n].retransmissions,
         raised |-> FALSE])

\* _send_packet: the line json.dumps(packet_data) written to the radio
WireFrame(packet) ==
    [id |-> packet.message_id,
     frag |-> packet.fragment_id,
     total |-> packet.total_fragments,
     priority |-> PriorityValue(packet.priority),
     payload |-> Hex(packet.payload),
     crc |-> packet.crc]

NonEmpty(queues) == {p \in Priorities : queues[p] # <<>>}

\* a scheduler that serves the lowest queue first
LastNonEmpty(queues) ==
    MessagePriority[CHOOSE i \in DOMAIN MessagePriority :
        /\ queues[MessagePriority[i]] # <<>>
        /\ \A j \in (i + 1)..Len(MessagePriority) : queues[MessagePriority[j]] = <<>>]

\* the queue the for loop of lines 180-184 takes from: the first of HIGH,
\* MEDIUM, LOW that is not empty
FirstNonEmpty(queues) ==
    MessagePriority[CHOOSE i \in DOMAIN MessagePriority :
        /\ queues[MessagePriority[i]] # <<>>
        /\ \A j \in 1..(i - 1) : queues[MessagePriority[j]] = <<>>]

Lower(p) == IF p = "HIGH" THEN "MEDIUM" ELSE "LOW"

NextBurst(b, p, queues) ==
    IF p # "LOW" /\ queues[Lower(p)] # <<>>
    THEN [from |-> p, count |-> (IF b.from = p THEN b.count ELSE 0) + 1]
    ELSE [from |-> p, count |-> 0]

\* _send_packet for the packet taken from queue p.  write_ok: serial.write
\* returns (TRUE) or raises (FALSE); a packet that was not written goes
\* back on the queue of its own priority field (requeue).
SendPacket(n, write_ok, c, p, iter, packet, after_get, requeue) ==
    IF write_ok
    THEN /\ send_queue' = [send_queue EXCEPT ![n] = after_get]
         /\ air' = [air EXCEPT ![n] = @ \cup {WireFrame(packet)}]
         /\ wire' = [wire EXCEPT ![n] = Append(@, WireFrame(packet))]
         /\ pending_acks' = [pending_acks EXCEPT ![n] =
                 AckSet(c.pending_acks, packet.message_id, now)]
         /\ last_iter' = [last_iter EXCEPT ![n] =
                 [iter EXCEPT !.from = p, !.sent = TRUE,
                              !.message_id = packet.message_id,
                              !.fragment_id = packet.fragment_id]]
         /\ burst' = [burst EXCEPT ![n] = NextBurst(@, p, c.send_queue)]
         /\ UNCHANGED sleep_until
    ELSE /\ send_queue' = [send_queue EXCEPT ![n] =
                 [after_get EXCEPT ![packet.priority] = requeue.queue]]
         /\ pending_acks' = [pending_acks EXCEPT ![n] = c.pending_acks]
         /\ last_iter' = [last_iter EXCEPT ![n] = [iter EXCEPT !.from = p]]
         /\ IF requeue.raised
            THEN sleep_until' = [sleep_until EXCEPT ![n] = now + 1]
            ELSE UNCHANGED sleep_until
         /\ UNCHANGED <<air, wire, burst>>

\* lines 180-186: g is what get_nowait on queue p gives
TakePacket(n, write_ok, c, p, iter, g, after_get) ==
    IF g.raised
    THEN /\ write_ok
         /\ send_queue' = [send_queue EXCEPT ![n] = after_get]
         /\ pending_acks' = [pending_acks EXCEPT ![n] = c.pending_acks]
         /\ sleep_until' = [sleep_until EXCEPT ![n] = now + 1]
         /\ last_iter' = [last_iter EXCEPT ![n] = iter]
         /\ UNCHANGED <<air, wire, burst>>
    ELSE SendPacket(n, write_ok, c, p, iter, g.item[2], after_get,
             QueuePut(after_get[g.item[2].priority],
                      <<PriorityValue(g.item[2].priority), g.item[2]>>))

SelectQueue(n, write_ok, c, p, iter, g) ==
    TakePacket(n, write_ok, c, p, iter, g, [c.send_queue EXCEPT ![p] = g.queue])

\* the iteration after the ack sweep, whose outcome is c
AfterSweep(n, write_ok, c, iter) ==
    /\ message_buffer' = [message_buffer EXCEPT ![n] = c.message_buffer]
    /\ signal_stats' = [signal_stats EXCEPT ![n].retransmissions = c.retransmissions]
    /\ IF c.raised
       THEN /\ write_ok
            /\ send_queue' = [send_queue EXCEPT ![n] = c.send_queue]
            /\ pending_acks' = [pending_acks EXCEPT ![n] = c.pending_acks]
            /\ sleep_until' = [sleep_until EXCEPT ![n] = now + 1]
            /\ last_iter' = [last_iter EXCEPT ![n] = iter]
            /\ UNCHANGED <<air, wire, burst>>
       ELSE IF NonEmpty(c.send_queue) = {}
       THEN /\ write_ok
            /\ send_queue' = [send_queue EXCEPT ![n] = c.send_queue]
            /\ pending_acks' = [pending_acks EXCEPT ![n] = c.pending_acks]
            /\ UNCHANGED <<air, wire, burst, sleep_until, last_iter>>
       ELSE SelectQueue(n, write_ok, c, FirstNonEmpty(c.send_queue), iter,
                        QueueGet(c.send_queue[FirstNonEmpty(c.send_queue)]))

SweepAcks(n, write_ok, c) ==
    AfterSweep(n, write_ok, c,
        [from |-> "NONE", sent |-> FALSE,
         at_start |-> NonEmpty(send_queue[n]),
         at_select |-> NonEmpty(c.send_queue),
         message_id |-> <<>>, fragment_id |-> -1])

\* One iteration of _send_loop.  radio is the set of outcomes serial.write
\* has.  An exception that reaches line 188 ends the iteration and the loop
\* sleeps one second.  An iteration that finds nothing due and nothing
\* queued changes nothing.
SendLoop(n, radio) ==
    \E write_ok \in radio :
        /\ running[n]
        /\ now >= sleep_until[n]
        /\ SweepAcks(n, write_ok, CheckPendingAcks(n))
        /\ UNCHANGED <<mesh_vars, net_vars, task_vars, now, running, receive_queue, received_fragments, call,
                       sends, delivered_ids>>

\* ------------------------------------------------------------------------
\* The receive path

\* _parse_packet: the line read back into a LoRaPacket; a line from
\* _send_packet carries no rssi and no snr, so both default to 0
ParsePacket(frame, clock) ==
    [message_id |-> frame.id,
     fragment_id |-> frame.frag,
     total_fragments |-> frame.total,
     priority |-> MessagePriority[frame.priority],
     payload |-> FromHex(frame.payload),
     crc |-> frame.crc,
     rssi |-> 0,
     snr |-> 0,
     timestamp |-> clock]

\* buffers that are never cut
AllSamples(samples) == samples

\* the last STATS_WINDOW samples, lines 264-266
LastSamples(samples) ==
    IF Len(samples) > STATS_WINDOW
    THEN SubSeq(samples, Len(samples) - STATS_WINDOW + 1, Len(samples))
    ELSE samples

\* a join that takes the fragments in descending index order
RECURSIVE JoinPayloadsDescending(_, _, _)
JoinPayloadsDescending(fragments, i, n) ==
    IF i >= n THEN <<>>
    ELSE JoinPayloadsDescending(fragments, i + 1, n) \o fragments[i].payload

RECURSIVE JoinPayloads(_, _, _)
JoinPayloads(fragments, i, n) ==
    IF i >= n THEN <<>>
    ELSE fragments[i].payload \o JoinPayloads(fragments, i + 1, n)

\* _reassemble_message: fragments[i] for i in range(len(fragments)), joined
\* and decoded.  A missing index (KeyError) or a UnicodeDecodeError is
\* caught at line 296: nothing is delivered and the buffer stays.
ReassembleMessage(buffers, queue, ids, message_id, last) ==
    LET fragments == buffers[message_id]
        n == Cardinality(DOMAIN fragments)
        complete == \A i \in 0..(n - 1) : i \in DOMAIN fragments
        message == decode(JoinPayloads(fragments, 0, n))
    IN  IF complete /\ message.ok
        THEN [received_fragments |-> Del(buffers, message_id),
              receive_queue |-> Append(queue, message.text),
              delivered_ids |-> Append(ids, [message_id |-> message_id, last |-> last])]
        ELSE [received_fragments |-> buffers,
              receive_queue |-> queue,
              delivered_ids |-> ids]

\* a buffer that keeps the fragments in their order of arrival
StoreNext(buffer, packet) == Put(buffer, Cardinality(DOMAIN buffer), packet)

\* line 277: the fragment goes under its fragment_id
StoreAt(buffer, packet) == Put(buffer, packet.fragment_id, packet)

\* lines 273-281: store the fragment, reassemble when the count is reached
StoreFragment(buffers, queue, ids, packet) ==
    LET buffer == IF packet.message_id \in DOMAIN buffers
                  THEN buffers[packet.message_id] ELSE <<>>
        stored == Put(buffers, packet.message_id, StoreAt(buffer, packet))
    IN  IF Cardinality(DOMAIN stored[packet.message_id]) = packet.total_fragments
        THEN ReassembleMessage(stored, queue, ids, packet.message_id, packet.fragment_id)
        ELSE [received_fragments |-> stored,
              receive_queue |-> queue,
              delivered_ids |-> ids]

\* a CRC test that lets every frame pass
CrcAlwaysValid(packet) == FALSE

\* line 256: the crc of the payload is not the crc the frame carries
CrcMismatch(packet) == crc32(packet.payload) # packet.crc

\* a handler that never takes a frame for an acknowledgement
NeverPending(n, packet) == FALSE

\* line 269: the frame's id has an entry in pending_acks
AckPending(n, packet) == packet.message_id \in Keys(pending_acks[n])

\* _handle_packet
HandlePacket(n, packet) ==
    IF CrcMismatch(packet)
    THEN /\ signal_stats' = [signal_stats EXCEPT ![n].packet_loss = @ + 1]
         /\ UNCHANGED <<pending_acks, received_fragments, receive_queue, delivered_ids>>
    ELSE /\ signal_stats' = [signal_stats EXCEPT
                ![n].rssi = LastSamples(Append(@, packet.rssi)),
                ![n].snr = LastSamples(Append(@, packet.snr))]
         /\ IF AckPending(n, packet)
            THEN /\ pending_acks' = [pending_acks EXCEPT ![n] = AckDel(@, packet.message_id)]
                 /\ UNCHANGED <<received_fragments, receive_queue, delivered_ids>>
            ELSE LET r == StoreFragment(received_fragments[n], receive_queue[n],
                                        delivered_ids[n], packet)
                 IN  /\ received_fragments' = [received_fragments EXCEPT ![n] = r.received_fragments]
                     /\ receive_queue' = [receive_queue EXCEPT ![n] = r.receive_queue]
                     /\ delivered_ids' = [delivered_ids EXCEPT ![n] = r.delivered_ids]
                     /\ UNCHANGED pending_acks

\* the line as the radio hands it over: intact, or with its crc field hit
Corrupted(frame) == [frame EXCEPT !.crc = (@ + 1) % 65536]

\* One iteration of _receive_loop with a line waiting: a line some other
\* node has written, in any order and any number of times.  channel is the
\* set of ways the specification's channel hands a line over: intact (TRUE)
\* or with the crc hit (FALSE).
ReceiveLine(n, frame, intact, limit) ==
    /\ running[n]
    /\ Len(signal_stats[n].rssi) + signal_stats[n].packet_loss < limit
    /\ HandlePacket(n, ParsePacket(IF intact THEN frame ELSE Corrupted(frame), now))
    /\ UNCHANGED <<mesh_vars, net_vars, task_vars, now, running, send_queue, message_buffer, air, wire, call,
                   sends, sleep_until, last_iter, burst>>

Receive(n, channel, limit) ==
    \E frame \in air[Peer(n)], intact \in channel :
        ReceiveLine(n, frame, intact, limit)

\* start(): the two threads begin
Start(n) ==
    /\ ~running[n]
    /\ running' = [running EXCEPT ![n] = TRUE]
    /\ UNCHANGED <<mesh_vars, net_vars, task_vars, now, send_queue, receive_queue, pending_acks, received_fragments,
                   message_buffer, signal_stats, air, wire, call, sends, sleep_until,
                   last_iter, burst, delivered_ids>>

\* time.time() moves on
Tick(limit) ==
    /\ now < limit
    /\ now' = now + 1
    /\ UNCHANGED <<mesh_vars, net_vars, task_vars, running, send_queue, receive_queue, pending_acks,
                   received_fragments, message_buffer, signal_stats, air, wire, call,
                   sends, sleep_until, last_iter, burst, delivered_ids>>

\* ------------------------------------------------------------------------
\* MeshNetworkManager (src/mesh_network.py)
NODE_TIMEOUT == 180

MAX_HOPS == 5

\* self.nodes is a dict: a sequence of Node records in insertion order
NodeIds(ns) == {ns[i].id : i \in DOMAIN ns}

NodeOf(ns, id) == ns[CHOOSE i \in DOMAIN ns : ns[i].id = id]

\* self.nodes[id] = node
NodePut(ns, node) ==
    IF node.id \in NodeIds(ns)
    THEN [i \in DOMAIN ns |-> IF ns[i].id = node.id THEN node ELSE ns[i]]
    ELSE Append(ns, node)

\* del self.nodes[id]
NodeDel(ns, id) == SelectSeq(ns, LAMBDA e : e.id # id)

\* networkx.Graph: add_node, add_edge (which adds its end points), remove_node
AddNode(g, v) == [g EXCEPT !.nodes = @ \cup {v}]

AddEdge(g, u, v) == [nodes |-> g.nodes \cup {u, v}, edges |-> g.edges \cup {{u, v}}]

RemoveNode(g, v) == [nodes |-> g.nodes \ {v}, edges |-> {e \in g.edges : v \notin e}]

Neighbours(g, v) == {w \in g.nodes : {v, w} \in g.edges}

\* the nodes of g within k hops of v
RECURSIVE Within(_, _, _)
Within(g, v, k) ==
    IF k = 0 THEN {v}
    ELSE Within(g, v, k - 1) \cup UNION {Neighbours(g, w) : w \in Within(g, v, k - 1)}

\* nx.shortest_path_length(g, source, target): NodeNotFound when an end
\* point is not in the graph, NetworkXNoPath when no path joins them
ShortestPathLength(g, source, target) ==
    IF source \notin g.nodes \/ target \notin g.nodes
    THEN [raised |-> "NodeNotFound", length |-> 0]
    ELSE IF target \notin Within(g, source, Cardinality(g.nodes))
    THEN [raised |-> "NetworkXNoPath", length |-> 0]
    ELSE [raised |-> "none",
          length |-> CHOOSE k \in 0..Cardinality(g.nodes) :
                        /\ target \in Within(g, source, k)
                        /\ \A j \in 0..(k - 1) : target \notin Within(g, source, j)]

\* nx.shortest_path(g, source, target, weight='weight') for source # target:
\* len(path) and path[1].  Every edge of the graph has the manager's own
\* id as an end point (line 300 is the only add_edge), so between two nodes
\* there is at most one simple path and the weights choose nothing.
ShortestPath(g, source, target) ==
    [raised |-> ShortestPathLength(g, source, target).raised,
     len |-> ShortestPathLength(g, source, target).length + 1,
     next_hop |->
        IF ShortestPathLength(g, source, target).raised = "none"
        THEN CHOOSE w \in Neighbours(g, source) :
                ShortestPathLength(g, w, target).length
                    = ShortestPathLength(g, source, target).length - 1
        ELSE "none"]

\* lines 238-257: the table _update_routing_table computes.  A NodeNotFound
\* is not caught by line 256 and ends the whole update at line 277.
RoutedDests(ns, g) ==
    {d \in NodeIds(ns) \ {node_id} :
        /\ ShortestPath(g, node_id, d).raised = "none"
        /\ ShortestPath(g, node_id, d).len <= MAX_HOPS}

NewRoutingTable(ns, g) ==
    [d \in RoutedDests(ns, g) |-> ShortestPath(g, node_id, d).next_hop]

UpdateAborted(ns, g) ==
    \E d \in NodeIds(ns) \ {node_id} :
        ShortestPath(g, node_id, d).raised = "NodeNotFound"

\* list(self.routing_table.items()) of a table built at lines 241-254: the
\* entries in the order of self.nodes
RECURSIVE RouteItems(_, _, _)
RouteItems(ns, table, k) ==
    IF k > Len(ns) THEN <<>>
    ELSE IF ns[k].id \in DOMAIN table
    THEN <<<<ns[k].id, table[ns[k].id]>>>> \o RouteItems(ns, table, k + 1)
    ELSE RouteItems(ns, table, k + 1)

\* self.lora.send_message(json.dumps(data), priority), as the manager sees it
Hand(hd, data, priority) == Append(hd, [data |-> data, priority |-> priority])

\* _update_routing_table on the manager state m
UpdateRoutingTable(m, clock) ==
    IF UpdateAborted(m.nodes, m.network_graph) THEN m
    ELSE IF NewRoutingTable(m.nodes, m.network_graph) # m.routing_table
    THEN [m EXCEPT
            !.routing_table = NewRoutingTable(m.nodes, m.network_graph),
            !.stats.route_updates = @ + 1,
            !.handed = Hand(@, [type |-> "route_update", node_id |-> node_id,
                                routes |-> RouteItems(m.nodes,
                                    NewRoutingTable(m.nodes, m.network_graph), 1),
                                timestamp |-> clock], "MEDIUM")]
    ELSE m

\* _register_node and _remove_node
RegisterNode(m, node, clock) ==
    UpdateRoutingTable([m EXCEPT !.nodes = NodePut(@, node),
                                 !.network_graph = AddNode(@, node.id)], clock)

RemoveWithoutRebuild(m, id, clock) ==
    [m EXCEPT !.nodes = NodeDel(@, id), !.network_graph = RemoveNode(@, id)]

RemoveNodeOp(m, id, clock) ==
    IF id \in NodeIds(m.nodes)
    THEN UpdateRoutingTable([m EXCEPT !.nodes = NodeDel(@, id),
                                      !.network_graph = RemoveNode(@, id)], clock)
    ELSE m

\* the manager's state as one record, and its assignment to the variables
MeshState ==
    [nodes |-> nodes, routing_table |-> routing_table,
     network_graph |-> network_graph, stats |-> stats, handed |-> handed]

SetMesh(m) ==
    /\ nodes' = m.nodes
    /\ routing_table' = m.routing_table
    /\ network_graph' = m.network_graph
    /\ stats' = m.stats
    /\ handed' = m.handed

\* the state of the two link handlers, which the manager's handlers leave alone
lora_vars == <<send_queue, receive_queue, pending_acks, received_fragments,
               message_buffer, signal_stats, air, wire, call, sends, sleep_until,
               last_iter, burst, delivered_ids>>

\* operations of the manager and moves of its clock in one behaviour
MaxOps == 4

MeshTicks == 1

\* one operation of the manager ends in state m, having returned op
MeshStep(m, op) ==
    /\ ops < MaxOps
    /\ SetMesh(m)
    /\ last_op' = op
    /\ ops' = ops + 1

\* start(): lines 77-102; lora.start() sets the handler's running flag
MeshStart ==
    /\ ~mesh_running
    /\ mesh_running' = TRUE
    /\ running' = [running EXCEPT !["A"] = TRUE]
    /\ MeshStep(RegisterNode(MeshState,
                    [id |-> node_id, last_seen |-> now, rssi |-> 0, snr |-> 0,
                     hop_count |-> 0, battery_level |-> 1, is_gateway |-> FALSE],
                    now),
                [op |-> "start"])
    /\ UNCHANGED <<now, lora_vars, task_vars, net_vars>>

\* get_signal_quality().get('rssi_avg', 0) and .get('snr_avg', 0)
RECURSIVE SumSeq(_)
SumSeq(q) == IF q = <<>> THEN 0 ELSE Head(q) + SumSeq(Tail(q))

Average(samples) ==
    IF samples = <<>> THEN 0 ELSE SumSeq(samples) \div Len(samples)

\* _handle_discovery: the node is registered, which rebuilds the routing
\* table, and only then the edge to it is added
AfterDiscovery(m, data, clock, quality) ==
    IF data.node_id # node_id
    THEN [RegisterNode(m, [id |-> data.node_id, last_seen |-> clock,
                           rssi |-> Average(quality.rssi),
                           snr |-> Average(quality.snr), hop_count |-> 1,
                           battery_level |-> data.battery_level,
                           is_gateway |-> data.is_gateway], clock)
            EXCEPT !.network_graph = AddEdge(@, node_id, data.node_id)]
    ELSE m

HandleDiscovery(data) ==
    /\ mesh_running
    /\ MeshStep(AfterDiscovery(MeshState, data, now, signal_stats["A"]),
                [op |-> "discovery", data |-> data])
    /\ UNCHANGED <<now, running, mesh_running, lora_vars, task_vars, net_vars>>

\* _handle_heartbeat
AfterHeartbeat(m, data, clock) ==
    IF data.node_id \in NodeIds(m.nodes)
    THEN [m EXCEPT !.nodes = NodePut(@, [NodeOf(@, data.node_id)
                                            EXCEPT !.last_seen = clock])]
    ELSE m

HandleHeartbeat(data) ==
    /\ mesh_running
    /\ MeshStep(AfterHeartbeat(MeshState, data, now),
                [op |-> "heartbeat", data |-> data])
    /\ UNCHANGED <<now, running, mesh_running, lora_vars, task_vars, net_vars>>

\* _handle_route_update, lines 313-322: the entries of data['routes'] from
\* the k-th on.  An exception of shortest_path_length ends the handler and
\* keeps the entries already stored.
AnyDest(dest) == TRUE

NotSelf(dest) == dest # node_id

RECURSIVE StoreRoutes(_, _, _, _, _)
StoreRoutes(table, g, sender, routes, k) ==
    IF k > Len(routes) THEN table
    ELSE IF ~NotSelf(routes[k][1])
    THEN StoreRoutes(table, g, sender, routes, k + 1)
    ELSE IF ShortestPathLength(g, node_id, sender).raised # "none" THEN table
    ELSE IF ShortestPathLength(g, node_id, sender).length < MAX_HOPS
    THEN StoreRoutes(Put(table, routes[k][1], routes[k][2]), g, sender, routes, k + 1)
    ELSE StoreRoutes(table, g, sender, routes, k + 1)

AfterRouteUpdate(m, data) ==
    IF data.node_id \in NodeIds(m.nodes)
    THEN [m EXCEPT !.routing_table =
            StoreRoutes(@, m.network_graph, data.node_id, data.routes, 1)]
    ELSE m

HandleRouteUpdate(data) ==
    /\ mesh_running
    /\ MeshStep(AfterRouteUpdate(MeshState, data),
                [op |-> "route_update", data |-> data])
    /\ UNCHANGED <<now, running, mesh_running, lora_vars, task_vars, net_vars>>

\* _handle_data.  lora.send_message re-raises what a put raised (line 120),
\* and then lines 341-342 are not reached.
AnyNextHop(data) == TRUE

\* line 330: the envelope names this manager as its next hop
NextHopIsSelf(data) == data.next_hop = node_id

AfterData(m, data, raises) ==
    IF data.destination = node_id THEN m
    ELSE IF ~NextHopIsSelf(data) THEN m
    ELSE IF data.destination \notin DOMAIN m.routing_table THEN m
    ELSE IF raises
    THEN [m EXCEPT !.handed =
            Hand(@, [data EXCEPT !.next_hop = m.routing_table[data.destination]],
                 "MEDIUM")]
    ELSE [m EXCEPT
            !.handed =
                Hand(@, [data EXCEPT !.next_hop = m.routing_table[data.destination]],
                     "MEDIUM"),
            !.stats.messages_forwarded = @ + 1,
            !.stats.total_bandwidth = @ + Len(encode(data.payload))]

HandleData(data, raises) ==
    /\ mesh_running
    /\ MeshStep(AfterData(MeshState, data, raises),
                [op |-> "data", data |-> data, raises |-> raises])
    /\ UNCHANGED <<now, running, mesh_running, lora_vars, task_vars, net_vars>>

\* one pass of _cleanup_loop, lines 203-214: the inactive ids in the order
\* of self.nodes, their removal one by one, the active_nodes statistic
InactiveNodes(ns, clock) ==
    SelectSeq(ns, LAMBDA e : clock - e.last_seen > NODE_TIMEOUT /\ e.id # node_id)

RECURSIVE RemoveAll(_, _, _, _)
RemoveAll(m, inactive, k, clock) ==
    IF k > Len(inactive) THEN m
    ELSE RemoveAll(RemoveNodeOp(m, inactive[k].id, clock), inactive, k + 1, clock)

AfterCleanup(m, inactive, clock) ==
    [RemoveAll(m, inactive, 1, clock) EXCEPT
        !.stats.active_nodes = Len(RemoveAll(m, inactive, 1, clock).nodes)
                                    - Len(inactive)]

CleanupLoop ==
    /\ mesh_running
    /\ MeshStep(AfterCleanup(MeshState, InactiveNodes(nodes, now), now),
                [op |-> "cleanup", inactive |-> InactiveNodes(nodes, now)])
    /\ UNCHANGED <<now, running, mesh_running, lora_vars, task_vars, net_vars>>

\* MeshNetworkManager.send_message, lines 123-143
NoRoute(table, destination) == destination \notin DOMAIN table

DestinationAsHop(table, destination) == destination

\* line 128: next_hop = self.routing_table[destination]
NextHop(table, destination) == table[destination]

AfterSend(m, destination, message, priority, raises) ==
    IF NoRoute(m.routing_table, destination) THEN m
    ELSE IF raises
    THEN [m EXCEPT !.handed =
            Hand(@, [type |-> "data", source |-> node_id,
                     destination |-> destination,
                     next_hop |-> NextHop(m.routing_table, destination),
                     payload |-> message], priority)]
    ELSE [m EXCEPT
            !.handed =
                Hand(@, [type |-> "data", source |-> node_id,
                         destination |-> destination,
                         next_hop |-> NextHop(m.routing_table, destination),
                         payload |-> message], priority),
            !.stats.total_bandwidth = @ + Len(encode(message))]

MeshSendResult(table, destination, raises) ==
    ~NoRoute(table, destination) /\ ~raises

MeshSendMessage(destination, message, priority, raises) ==
    /\ MeshStep(AfterSend(MeshState, destination, message, priority, raises),
                [op |-> "send_message", destination |-> destination,
                 raises |-> raises,
                 result |-> MeshSendResult(routing_table, destination, raises)])
    /\ UNCHANGED <<now, running, mesh_running, lora_vars, task_vars, net_vars>>

\* time.time() moves on by more than NODE_TIMEOUT
MeshTick ==
    /\ now < MeshTicks * (NODE_TIMEOUT + 1)
    /\ now' = now + NODE_TIMEOUT + 1
    /\ UNCHANGED <<mesh_vars, running, lora_vars, task_vars, net_vars>>

\* ------------------------------------------------------------------------
\* Specifications.  Node A's application sends; node B listens.

\* Spec: the send side of A with short and two-fragment messages at every
\* priority, the radio working
AppPool == {1, 3}

Next ==
    \/ SendMessage("A", AppPool, Priorities, MaxSends)
    \/ PutFragment("A")
    \/ SendLoop("A", {TRUE})
    \/ Start("A")
    \/ Tick(MaxClock)

Spec == Init /\ [][Next]_vars

\* SpecPrio: the transmit scheduler of A over time, ack sweep included
PrioPool == {3}

NextPrio ==
    \/ SendMessage("A", PrioPool, Priorities, PrioSends)
    \/ PutFragment("A")
    \/ SendLoop("A", {TRUE})
    \/ Start("A")
    \/ Tick(PrioClock)

SpecPrio == Init /\ [][NextPrio]_vars

\* SpecFrag: A submits any of the strings with the default priority, B
\* reads A's lines in any order, repeated, intact or not
NextFrag ==
    \/ SendMessage("A", DOMAIN Messages, {"MEDIUM"}, FragSends)
    \/ PutFragment("A")
    \/ SendLoop("A", {TRUE})
    \/ Start("A")
    \/ Start("B")
    \/ Receive("B", BOOLEAN, MaxRecv)

SpecFrag == Init /\ [][NextFrag]_vars

\* SpecRetry: A submits a short message that nobody acknowledges
RetryPool == {1}

NextRetry ==
    \/ SendMessage("A", RetryPool, Priorities, RetrySends)
    \/ SendLoop("A", {TRUE})
    \/ Start("A")
    \/ Tick(RetryClock)

SpecRetry == Init /\ [][NextRetry]_vars

\* SpecAck: both nodes submit the same short text at the same clock
\* reading, so the frames of one carry an id the other has pending
AckPool == {1}

AckSends == 1

AckRecv == 2

NextAck ==
    \/ SendMessage("A", AckPool, Priorities, AckSends)
    \/ SendMessage("B", AckPool, Priorities, AckSends)
    \/ SendLoop("A", {TRUE})
    \/ SendLoop("B", {TRUE})
    \/ Start("A")
    \/ Start("B")
    \/ Receive("A", BOOLEAN, AckRecv)
    \/ Receive("B", BOOLEAN, AckRecv)

SpecAck == Init /\ [][NextAck]_vars

\* ------------------------------------------------------------------------
\* A mesh of three managers S, X and Y that hear each other.  Every manager
\* runs the code of the manager S above: its state is kept with its own id
\* and S exchanged, and so is every envelope it handles or hands out.
Sw(id, x) == IF x = id THEN node_id ELSE IF x = node_id THEN id ELSE x

SwRoutes(id, routes) ==
    [k \in DOMAIN routes |-> <<Sw(id, routes[k][1]), Sw(id, routes[k][2])>>]

SwData(id, data) ==
    IF data.type = "data"
    THEN [data EXCEPT !.source = Sw(id, @), !.destination = Sw(id, @),
                      !.next_hop = Sw(id, @)]
    ELSE IF data.type = "route_update"
    THEN [data EXCEPT !.node_id = Sw(id, @), !.routes = SwRoutes(id, @)]
    ELSE [data EXCEPT !.node_id = Sw(id, @)]

\* the handlers' hand-offs go on the air: an envelope with the manager that
\* broadcast it and, for DATA, the number of times it has been forwarded
Broadcast(id, handed_over, hops) ==
    {[from |-> id, data |-> SwData(id, handed_over[k].data),
      hops |-> IF handed_over[k].data.type = "data" THEN hops ELSE 0] :
        k \in DOMAIN handed_over}

\* operations of the managers of the mesh in one behaviour
MaxNetOps == 6

NetStep(id, m, hops) ==
    /\ net' = [net EXCEPT ![id] = [m EXCEPT !.handed = <<>>]]
    /\ ether' = ether \cup Broadcast(id, m.handed, hops)
    /\ UNCHANGED <<now, running, lora_vars, task_vars, mesh_running, nodes, routing_table,
                   network_graph, stats, handed, last_op>>

\* start() of manager id
NetStart(id) ==
    /\ ~net[id].running
    /\ NetStep(id, RegisterNode([net[id] EXCEPT !.running = TRUE],
                    [id |-> node_id, last_seen |-> now, rssi |-> 0, snr |-> 0,
                     hop_count |-> 0, battery_level |-> 1, is_gateway |-> FALSE],
                    now), 0)
    /\ UNCHANGED ops

\* one iteration of _discovery_loop of manager id, lines 159-171
NetDiscoveryLoop(id) ==
    /\ net[id].running
    /\ NetStep(id, [net[id] EXCEPT !.handed =
                    Hand(@, [type |-> "discovery", node_id |-> node_id,
                             is_gateway |-> FALSE, battery_level |-> 1,
                             timestamp |-> now], "LOW")], 0)
    /\ UNCHANGED ops

\* _message_handler of manager id, lines 353-358, for an envelope another
\* manager has broadcast; no signal samples have been taken
Dispatch(m, data, clock, raises) ==
    IF data.type = "discovery"
    THEN AfterDiscovery(m, data, clock, [rssi |-> <<>>, snr |-> <<>>])
    ELSE IF data.type = "route_update" THEN AfterRouteUpdate(m, data)
    ELSE IF data.type = "data" THEN AfterData(m, data, raises)
    ELSE AfterHeartbeat(m, data, clock)

NetHandle(id, e, raises) ==
    /\ net[id].running
    /\ e.from # id
    /\ ops < MaxNetOps
    /\ ops' = ops + 1
    /\ NetStep(id, Dispatch(net[id], SwData(id, e.data), now, raises), e.hops + 1)

\* a DATA envelope that another sender has put on the air
MaxInjected == 1

NetInject(data) ==
    /\ Cardinality({e \in ether : e.from = "outside"}) < MaxInjected
    /\ ether' = ether \cup {[from |-> "outside", data |-> data, hops |-> 0]}
    /\ UNCHANGED <<net, ops, now, running, lora_vars, task_vars, mesh_running, nodes, routing_table,
                   network_graph, stats, handed, last_op>>

\* send_message of manager id
NetSend(id, destination, message, raises) ==
    /\ ops < MaxNetOps
    /\ ops' = ops + 1
    /\ NetStep(id, AfterSend(net[id], Sw(id, destination), message, "MEDIUM", raises), 0)

NetData ==
    [type : {"data"}, source : {"outside"}, destination : {"Y"},
     next_hop : MeshIds, payload : {Messages[1]}]

NextNet ==
    \/ \E id \in MeshIds : NetStart(id)
    \/ \E id \in MeshIds : NetDiscoveryLoop(id)
    \/ \E id \in MeshIds, e \in ether : NetHandle(id, e, FALSE)
    \/ \E data \in NetData : NetInject(data)
    \/ \E id \in MeshIds, destination \in MeshIds :
            NetSend(id, destination, Messages[1], FALSE)

SpecNet == Init /\ [][NextNet]_vars

\* SpecLossy: the link from A to B loses every third line A writes and hands
\* the others to B once each, in the order written.  A submits one message
\* of three fragments; the threads and the clock are scheduled fairly.
DROP_PERIOD == 3

RECURSIVE KeptFrom(_, _)
KeptFrom(lines, i) ==
    IF i > Len(lines) THEN <<>>
    ELSE IF i % DROP_PERIOD = 0 THEN KeptFrom(lines, i + 1)
    ELSE <<lines[i]>> \o KeptFrom(lines, i + 1)

\* lines B's _receive_loop has read so far
LinesRead(n) == Len(signal_stats[n].rssi) + signal_stats[n].packet_loss

ReadLine(n, lines, k) ==
    /\ k <= Len(lines)
    /\ ReceiveLine(n, lines[k], TRUE, k)

ReceiveLossy(n) == ReadLine(n, KeptFrom(wire[Peer(n)], 1), LinesRead(n) + 1)

LossyPool == {4}

LossySends == 1

LossyClock == 4

NextLossy ==
    \/ SendMessage("A", LossyPool, {"MEDIUM"}, LossySends)
    \/ PutFragment("A")
    \/ SendLoop("A", {TRUE})
    \/ Start("A")
    \/ Start("B")
    \/ ReceiveLossy("B")
    \/ Tick(LossyClock)

\* _receive_loop has a line waiting (serial.in_waiting, line 195)
CanReceive(n) == running[n] /\ LinesRead(n) < Len(KeptFrom(wire[Peer(n)], 1))

\* an iteration of _send_loop has something to do: it is not asleep and a
\* queue holds a packet or a tracker has timed out (lines 176-183, 303)
CanSend(n) ==
    /\ running[n]
    /\ now >= sleep_until[n]
    /\ \/ NonEmpty(send_queue[n]) # {}
       \/ \E k \in DOMAIN pending_acks[n] :
              now - pending_acks[n][k].timestamp > ACK_TIMEOUT

\* Weak fairness of the two loops is written out with these conditions,
\* which are the states where an iteration changes something.
SpecLossy ==
    /\ Init
    /\ [][NextLossy]_vars
    /\ WF_vars(SendMessage("A", LossyPool, {"MEDIUM"}, LossySends))
    /\ WF_vars(PutFragment("A"))
    /\ WF_vars(Start("A"))
    /\ WF_vars(Start("B"))
    /\ WF_vars(Tick(LossyClock))
    /\ ([]<>(~CanSend("A")) \/ []<><<SendLoop("A", {TRUE})>>_vars)
    /\ ([]<>(~CanReceive("B")) \/ []<><<ReceiveLossy("B")>>_vars)

\* The manager S handles the messages that X, Y and itself can have sent,
\* sweeps its nodes and sends to any id.
MeshPool == {3}

RoutePairs == MeshIds \X MeshIds

\* data['routes']: no entry, any one entry, or an entry for Y after an
\* entry for S or for Y
RouteLists ==
    {<<>>} \cup {<<p>> : p \in RoutePairs}
           \cup {<<p, <<"Y", "Y">> >> : p \in {<<"S", "X">>, <<"Y", "X">>}}

DiscoveryData ==
    [type : {"discovery"}, node_id : MeshIds, is_gateway : {FALSE},
     battery_level : {1}]

HeartbeatData == [type : {"heartbeat"}, node_id : MeshIds]

RouteUpdateData ==
    [type : {"route_update"}, node_id : MeshIds, routes : RouteLists]

DataData ==
    [type : {"data"}, source : {"X"}, destination : MeshIds,
     next_hop : {node_id, "X"}, payload : {Messages[1]}]

NextMesh ==
    \/ MeshStart
    \/ \E data \in DiscoveryData : HandleDiscovery(data)
    \/ \E data \in HeartbeatData : HandleHeartbeat(data)
    \/ \E data \in RouteUpdateData : HandleRouteUpdate(data)
    \/ \E data \in DataData, raises \in BOOLEAN : HandleData(data, raises)
    \/ CleanupLoop
    \/ \E destination \in MeshIds, i \in MeshPool, raises \in BOOLEAN :
            MeshSendMessage(destination, Messages[i], "MEDIUM", raises)
    \/ MeshTick

SpecMesh == Init /\ [][NextMesh]_vars

\* ------------------------------------------------------------------------
\* start() and stop() of the manager on handler A, with its five threads.
\* Each thread is at the while test of its loop, in the body, or has left
\* the loop; the caller of stop() moves one statement at a time.
MaxTaskOps == 3

\* start(), lines 77-104, with lora.start(), lines 83-89: the flags are set
\* and the five threads created; one start and one stop are followed
TaskStart ==
    /\ ~mesh_running
    /\ stop_pc = "idle"
    /\ mesh_running' = TRUE
    /\ running' = [running EXCEPT !["A"] = TRUE]
    /\ threads' = [t \in Tasks |-> "test"]
    /\ SetMesh(RegisterNode(MeshState,
                    [id |-> node_id, last_seen |-> now, rssi |-> 0, snr |-> 0,
                     hop_count |-> 0, battery_level |-> 1, is_gateway |-> FALSE],
                    now))
    /\ UNCHANGED <<now, lora_vars, net_vars, stats_vars, race_vars, last_op, ops, serial_open, stop_pc,
                   closed_io>>

\* the flag a thread's while tests: self.running of the manager or of the handler
TaskFlag(t) == IF t \in MeshTasks THEN mesh_running ELSE running["A"]

\* while self.running: the thread enters the body or leaves the loop
TaskTest(t) ==
    /\ threads[t] = "test"
    /\ threads' = [threads EXCEPT ![t] = IF TaskFlag(t) THEN "body" ELSE "exited"]
    /\ UNCHANGED <<now, running, lora_vars, mesh_vars, net_vars, stats_vars, race_vars, serial_open,
                   stop_pc, closed_io>>

\* the body of _discovery_loop and of _heartbeat_loop: one envelope goes to
\* lora.send_message, which puts it on a queue
TaskBroadcast(t, data) ==
    /\ threads[t] = "body"
    /\ ops < MaxTaskOps
    /\ ops' = ops + 1
    /\ handed' = Hand(handed, data, "LOW")
    /\ threads' = [threads EXCEPT ![t] = "test"]
    /\ UNCHANGED <<now, running, lora_vars, net_vars, stats_vars, race_vars, mesh_running, nodes,
                   routing_table, network_graph, stats, last_op, serial_open,
                   stop_pc, closed_io>>

TaskDiscovery ==
    TaskBroadcast("discovery",
        [type |-> "discovery", node_id |-> node_id, is_gateway |-> FALSE,
         battery_level |-> 1, timestamp |-> now])

TaskHeartbeat ==
    TaskBroadcast("heartbeat",
        [type |-> "heartbeat", node_id |-> node_id, timestamp |-> now])

\* the body of _cleanup_loop
TaskCleanup ==
    /\ threads["cleanup"] = "body"
    /\ SetMesh(AfterCleanup(MeshState, InactiveNodes(nodes, now), now))
    /\ threads' = [threads EXCEPT !["cleanup"] = "test"]
    /\ UNCHANGED <<now, running, lora_vars, net_vars, stats_vars, race_vars, mesh_running, last_op, ops,
                   serial_open, stop_pc, closed_io>>

\* a use of self.serial by thread t: on a closed port it is recorded
SerialUse(t) == IF serial_open THEN closed_io ELSE closed_io \cup {t}

\* the body of _send_loop: with a packet on a queue, _send_packet calls
\* serial.write (line 222); with none the port is not touched
TaskSend(queued) ==
    /\ threads["send"] = "body"
    /\ closed_io' = IF queued THEN SerialUse("send") ELSE closed_io
    /\ threads' = [threads EXCEPT !["send"] = "test"]
    /\ UNCHANGED <<now, running, lora_vars, mesh_vars, net_vars, stats_vars, race_vars, serial_open, stop_pc>>

\* the body of _receive_loop: serial.in_waiting is read (line 196)
TaskReceive ==
    /\ threads["receive"] = "body"
    /\ closed_io' = SerialUse("receive")
    /\ threads' = [threads EXCEPT !["receive"] = "test"]
    /\ UNCHANGED <<now, running, lora_vars, mesh_vars, net_vars, stats_vars, race_vars, serial_open, stop_pc>>

\* MeshNetworkManager.stop, lines 108-109: the manager's flag is cleared
StopBegin ==
    /\ stop_pc = "idle"
    /\ mesh_running
    /\ mesh_running' = FALSE
    /\ stop_pc' = "lora_stop"
    /\ UNCHANGED <<now, running, lora_vars, net_vars, stats_vars, race_vars, nodes, routing_table,
                   network_graph, stats, handed, last_op, ops, threads,
                   serial_open, closed_io>>

\* LoRaProtocolHandler.stop, lines 93-94: the handler's flag is cleared
StopLora ==
    /\ stop_pc = "lora_stop"
    /\ running' = [running EXCEPT !["A"] = FALSE]
    /\ stop_pc' = "join_send"
    /\ UNCHANGED <<now, lora_vars, mesh_vars, net_vars, stats_vars, race_vars, threads, serial_open, closed_io>>

\* thread.join(): the caller goes on once the thread has left its loop
StopJoin(pc, t, next) ==
    /\ stop_pc = pc
    /\ threads[t] = "exited"
    /\ stop_pc' = next
    /\ UNCHANGED <<now, running, lora_vars, mesh_vars, net_vars, stats_vars, race_vars, threads,
                   serial_open, closed_io>>

\* LoRaProtocolHandler.stop, line 99: self.serial.close()
StopClose ==
    /\ stop_pc = "close"
    /\ serial_open' = FALSE
    /\ stop_pc' = "join_discovery"
    /\ UNCHANGED <<now, running, lora_vars, mesh_vars, net_vars, stats_vars, race_vars, threads, closed_io>>

NextStop ==
    \/ TaskStart
    \/ \E t \in Tasks : TaskTest(t)
    \/ TaskDiscovery
    \/ TaskHeartbeat
    \/ TaskCleanup
    \/ \E queued \in BOOLEAN : TaskSend(queued)
    \/ TaskReceive
    \/ StopBegin
    \/ StopLora
    \/ StopJoin("join_send", "send", "join_receive")
    \/ StopJoin("join_receive", "receive", "close")
    \/ StopClose
    \/ StopJoin("join_discovery", "discovery", "join_heartbeat")
    \/ StopJoin("join_heartbeat", "heartbeat", "join_cleanup")
    \/ StopJoin("join_cleanup", "cleanup", "done")

SpecStop == Init /\ [][NextStop]_vars

\* ------------------------------------------------------------------------
\* The send thread and the receive thread of A, one statement of
\* _check_pending_acks and of _handle_packet at a time, on the trackers of
\* a message that B has submitted as well.
RacePool == {1}

RaceSends == 1

RaceRecv == 2

RaceClock == 3

NoSweep == [active |-> FALSE, items |-> <<>>, k |-> 1, clock |-> 0]

\* lines 301-302: current_time = time.time() and list(self.pending_acks.items())
SweepSnapshot(n) ==
    /\ running[n]
    /\ now >= sleep_until[n]
    /\ ~sweep.active
    /\ sweep' = [active |-> TRUE, items |-> pending_acks[n], k |-> 1, clock |-> now]
    /\ UNCHANGED <<mesh_vars, net_vars, stats_vars, now, running, lora_vars, threads,
                   serial_open, stop_pc, closed_io, acked, rx, thread_errors>>

\* line 311 for message_id, after lines 305-310 have left the queues as
\* queues, the buffer as buffer and the count as retransmissions: del on a
\* key that is gone raises KeyError, which line 188 catches
SweepDel(n, message_id, queues, buffer, retransmissions) ==
    /\ send_queue' = [send_queue EXCEPT ![n] = queues]
    /\ message_buffer' = [message_buffer EXCEPT ![n] = buffer]
    /\ signal_stats' = [signal_stats EXCEPT ![n].retransmissions = retransmissions]
    /\ IF message_id \in Keys(pending_acks[n])
       THEN /\ pending_acks' = [pending_acks EXCEPT ![n] = AckDel(@, message_id)]
            /\ sweep' = [sweep EXCEPT !.k = @ + 1]
            /\ UNCHANGED <<sleep_until, thread_errors>>
       ELSE /\ thread_errors' = thread_errors \cup
                    {[thread |-> "send", error |-> "KeyError", line |-> 311]}
            /\ sweep' = NoSweep
            /\ sleep_until' = [sleep_until EXCEPT ![n] = now + 1]
            /\ UNCHANGED pending_acks

\* lines 305-310 with r what send_message(message, HIGH) returns
SweepRetransmit(n, message_id, r) ==
    IF r.raised
    THEN /\ send_queue' = [send_queue EXCEPT ![n] = r.send_queue]
         /\ message_buffer' = [message_buffer EXCEPT ![n] = r.message_buffer]
         /\ signal_stats' = [signal_stats EXCEPT ![n].retransmissions = @ + 1]
         /\ sweep' = NoSweep
         /\ sleep_until' = [sleep_until EXCEPT ![n] = now + 1]
         /\ UNCHANGED <<pending_acks, thread_errors>>
    ELSE SweepDel(n, message_id, r.send_queue, r.message_buffer,
                  signal_stats[n].retransmissions + 1)

\* lines 303-311 for the next entry of the list
SweepEntry(n) ==
    /\ sweep.active
    /\ sweep.k <= Len(sweep.items)
    /\ IF ~(sweep.clock - sweep.items[sweep.k].timestamp > ACK_TIMEOUT)
       THEN /\ sweep' = [sweep EXCEPT !.k = @ + 1]
            /\ UNCHANGED <<send_queue, message_buffer, signal_stats, pending_acks,
                           sleep_until, thread_errors>>
       ELSE IF sweep.items[sweep.k].message_id \in DOMAIN message_buffer[n]
       THEN SweepRetransmit(n, sweep.items[sweep.k].message_id,
                SendMessageOp(send_queue[n], message_buffer[n], now,
                    message_buffer[n][sweep.items[sweep.k].message_id],
                    RetransmitPriority))
       ELSE SweepDel(n, sweep.items[sweep.k].message_id, send_queue[n],
                     message_buffer[n], signal_stats[n].retransmissions)
    /\ UNCHANGED <<mesh_vars, net_vars, stats_vars, now, running, receive_queue,
                   received_fragments, air, wire, call, sends, last_iter, burst,
                   delivered_ids, threads, serial_open, stop_pc, closed_io, acked, rx>>

\* lines 180-186, after the walk has come to its end
SweepEnd(n) ==
    /\ sweep.active
    /\ sweep.k > Len(sweep.items)
    /\ sweep' = NoSweep
    /\ SweepAcks(n, TRUE,
           [send_queue |-> send_queue[n],
            message_buffer |-> message_buffer[n],
            pending_acks |-> pending_acks[n],
            retransmissions |-> signal_stats[n].retransmissions,
            raised |-> FALSE])
    /\ UNCHANGED <<mesh_vars, net_vars, stats_vars, now, running, receive_queue,
                   received_fragments, call, sends, delivered_ids, threads,
                   serial_open, stop_pc, closed_io, acked, rx, thread_errors>>

\* lines 255-269 for a line of the peer: a frame whose id is in
\* pending_acks stays in hand for the del of line 270; any other frame is
\* handled to the end
RxTest(n, limit) ==
    \E frame \in air[Peer(n)] :
        /\ running[n]
        /\ ~rx.active
        /\ Len(signal_stats[n].rssi) + signal_stats[n].packet_loss < limit
        /\ IF AckPending(n, ParsePacket(frame, now))
           THEN /\ signal_stats' = [signal_stats EXCEPT
                        ![n].rssi = LastSamples(Append(@, 0)),
                        ![n].snr = LastSamples(Append(@, 0))]
                /\ rx' = [active |-> TRUE, message_id |-> frame.id]
                /\ UNCHANGED <<pending_acks, received_fragments, receive_queue,
                               delivered_ids>>
           ELSE /\ HandlePacket(n, ParsePacket(frame, now))
                /\ UNCHANGED rx
        /\ UNCHANGED <<mesh_vars, net_vars, stats_vars, now, running, send_queue,
                       message_buffer, air, wire, call, sends, sleep_until,
                       last_iter, burst, threads, serial_open, stop_pc,
                       closed_io, acked, sweep, thread_errors>>

\* line 270: del self.pending_acks[packet.message_id]; a KeyError is caught
\* at line 203
RxDel(n) ==
    /\ rx.active
    /\ rx' = [active |-> FALSE, message_id |-> <<>>]
    /\ IF rx.message_id \in Keys(pending_acks[n])
       THEN /\ pending_acks' = [pending_acks EXCEPT ![n] = AckDel(@, rx.message_id)]
            /\ acked' = acked \cup {rx.message_id}
            /\ UNCHANGED thread_errors
       ELSE /\ thread_errors' = thread_errors \cup
                    {[thread |-> "receive", error |-> "KeyError", line |-> 270]}
            /\ UNCHANGED <<pending_acks, acked>>
    /\ UNCHANGED <<mesh_vars, net_vars, stats_vars, now, running, send_queue, receive_queue,
                   received_fragments, message_buffer, signal_stats, air, wire,
                   call, sends, sleep_until, last_iter, burst, delivered_ids,
                   threads, serial_open, stop_pc, closed_io, sweep>>

NextRace ==
    \/ SendMessage("A", RacePool, {"MEDIUM"}, RaceSends)
    \/ SendMessage("B", RacePool, {"MEDIUM"}, RaceSends)
    \/ Start("A")
    \/ Start("B")
    \/ SendLoop("B", {TRUE})
    \/ SweepSnapshot("A")
    \/ SweepEntry("A")
    \/ SweepEnd("A")
    \/ RxTest("A", RaceRecv)
    \/ RxDel("A")
    \/ Tick(RaceClock)

SpecRace == Init /\ [][NextRace]_vars

\* The same threads while A's send loop drains the two fragments of one
\* message and B's frame of that id arrives in between
DrainPool == {4}

NextDrain ==
    \/ SendMessage("A", DrainPool, {"MEDIUM"}, RaceSends)
    \/ SendMessage("B", DrainPool, {"MEDIUM"}, RaceSends)
    \/ PutFragment("A")
    \/ Start("A")
    \/ Start("B")
    \/ SendLoop("B", {TRUE})
    \/ SweepSnapshot("A")
    \/ SweepEntry("A")
    \/ SweepEnd("A")
    \/ RxTest("A", RaceRecv)
    \/ RxDel("A")

SpecDrain == Init /\ [][NextDrain]_vars

\* ------------------------------------------------------------------------
\* B receives frames that carry the radio's rssi and snr readings; more
\* frames arrive than the sample buffers keep.
StatsFrames == 103

\* the arrivals that can come with a wrong crc
CorruptAt == {2, 50, 101}

\* the readings of the k-th frame
RssiOf(k) == 0 - 60 - (k % 7)

SnrOf(k) == 10 - (k % 5)

\* the k-th frame: fragment 0 of 2 of one message, with its readings
StatsPacket(k, intact, clock) ==
    [message_id |-> MessageId(0, Messages[1]),
     fragment_id |-> 0,
     total_fragments |-> 2,
     priority |-> "MEDIUM",
     payload |-> Messages[1],
     crc |-> IF intact THEN crc32(Messages[1]) ELSE (crc32(Messages[1]) + 1) % 65536,
     rssi |-> RssiOf(k),
     snr |-> SnrOf(k),
     timestamp |-> clock]

\* one iteration of _receive_loop of n for such a frame
StatsReceive(n, k, intact) ==
    /\ running[n]
    /\ k <= StatsFrames
    /\ intact \/ k \in CorruptAt
    /\ HandlePacket(n, StatsPacket(k, intact, now))
    /\ arrived' = Append(arrived, [rssi |-> RssiOf(k), snr |-> SnrOf(k), valid |-> intact])
    /\ UNCHANGED <<mesh_vars, net_vars, now, running, send_queue, message_buffer,
                   air, wire, call, sends, sleep_until, last_iter, burst,
                   threads, serial_open, stop_pc, closed_io, race_vars>>

NextStats ==
    \/ Start("B")
    \/ \E intact \in BOOLEAN : StatsReceive("B", Len(arrived) + 1, intact)

SpecStats == Init /\ [][NextStats]_vars

\* ------------------------------------------------------------------------
\* The weight of the edges.  Handler A takes frames with rssi readings and
\* the manager discovers X and Y at different averages.
WeightFrames == 2

\* readings whose averages over one or two frames are whole numbers
Readings == {0, 0 - 40, 0 - 80, 0 - 120}

Abs(x) == IF x < 0 THEN 0 - x ELSE x

\* line 299: weight = 1.0 / (abs(node.rssi) + 1), as a fraction
EdgeWeight(rssi) == [num |-> 1, den |-> Abs(rssi) + 1]

\* the weight attribute of the edge from the manager to id, which line 300
\* sets from the rssi that line 289 has stored in the node
WeightOf(ns, id) == EdgeWeight(NodeOf(ns, id).rssi)

\* v < w for fractions with positive denominators
Lighter(v, w) == v.num * w.den < w.num * v.den

\* one iteration of _receive_loop of A for a frame with the reading rssi
WeightReceive(rssi) ==
    /\ running["A"]
    /\ Len(signal_stats["A"].rssi) < WeightFrames
    /\ HandlePacket("A", [StatsPacket(1, TRUE, now) EXCEPT !.rssi = rssi, !.snr = 0])
    /\ UNCHANGED <<mesh_vars, net_vars, task_vars, now, running, send_queue,
                   message_buffer, air, wire, call, sends, sleep_until, last_iter,
                   burst>>

NextWeight ==
    \/ MeshStart
    \/ \E rssi \in Readings : WeightReceive(rssi)
    \/ \E data \in [type : {"discovery"}, node_id : {"X", "Y"},
                    is_gateway : {FALSE}, battery_level : {1}] :
            HandleDiscovery(data)

SpecWeight == Init /\ [][NextWeight]_vars

\* ------------------------------------------------------------------------
\* B receives lines whose crc is right and whose frag field is any index,
\* in or out of the range that total gives.
MaxIndexRecv == 4

\* the line for fragment frag of total of the text submitted at clock 0
IndexFrame(frag, total) ==
    WireFrame([message_id |-> MessageId(0, Messages[1]),
               fragment_id |-> frag,
               total_fragments |-> total,
               priority |-> "MEDIUM",
               payload |-> Messages[1],
               crc |-> crc32(Messages[1])])

IndexFrames == {IndexFrame(frag, total) : frag \in 0..2, total \in 1..2}

NextIndex ==
    \/ Start("B")
    \/ \E frame \in IndexFrames : ReceiveLine("B", frame, TRUE, MaxIndexRecv)

SpecIndex == Init /\ [][NextIndex]_vars

\* ------------------------------------------------------------------------
\* SpecHigh: short messages of A at every priority, sent and left without
\* an acknowledgement until the sweep retransmits them
HighPool == {1}
HighSends == 2
HighClock == 3

NextHigh ==
    \/ SendMessage("A", HighPool, Priorities, HighSends)
    \/ SendLoop("A", {TRUE})
    \/ Start("A")
    \/ Tick(HighClock)

SpecHigh == Init /\ [][NextHigh]_vars

\* ------------------------------------------------------------------------
\* SpecRadio: short messages of A at every priority and a radio whose
\* serial.write may raise at any iteration
RadioPool == {1}
RadioSends == 2
RadioClock == 1

NextRadio ==
    \/ SendMessage("A", RadioPool, Priorities, RadioSends)
    \/ SendLoop("A", BOOLEAN)
    \/ Start("A")
    \/ Tick(RadioClock)

SpecRadio == Init /\ [][NextRadio]_vars

\* a step of the send loop of A whose serial.write raised: the iteration
\* took a packet from the queue last_iter'.from and did not transmit it
WriteFailed ==
    /\ UNCHANGED <<sends, now, running, call, wire>>
    /\ last_iter'["A"] # last_iter["A"]
    /\ last_iter'["A"].from # "NONE"
    /\ ~last_iter'["A"].sent

QueuedFrames(n) ==
    Len(send_queue[n]["HIGH"]) + Len(send_queue[n]["MEDIUM"]) + Len(send_queue[n]["LOW"])

\* ------------------------------------------------------------------------
\* B receives the fragments of a two-fragment message, or only some of
\* them, while the clock runs past the specification's REASSEMBLY_TTL.
REASSEMBLY_TTL == 30

MaxTtlRecv == 2

TtlClock == 31

TtlFrames == {IndexFrame(0, 2), IndexFrame(1, 2), IndexFrame(0, 1)}

NextTtl ==
    \/ Start("B")
    \/ \E frame \in TtlFrames : ReceiveLine("B", frame, TRUE, MaxTtlRecv)
    \/ Tick(TtlClock)

\* time.time() never stops
SpecTtl == Init /\ [][NextTtl]_vars /\ WF_vars(Tick(TtlClock))

\* ------------------------------------------------------------------------
\* A manager whose handlers are called whether or not start() has run, as
\* the mesh_network fixture of the tests calls them.
DirectDiscovery(data) ==
    /\ MeshStep(AfterDiscovery(MeshState, data, now, signal_stats["A"]),
                [op |-> "discovery", data |-> data])
    /\ UNCHANGED <<now, running, mesh_running, lora_vars, task_vars, net_vars>>

DirectHeartbeat(data) ==
    /\ MeshStep(AfterHeartbeat(MeshState, data, now),
                [op |-> "heartbeat", data |-> data])
    /\ UNCHANGED <<now, running, mesh_running, lora_vars, task_vars, net_vars>>

NextFixture ==
    \/ MeshStart
    \/ \E data \in DiscoveryData : DirectDiscovery(data)
    \/ \E data \in HeartbeatData : DirectHeartbeat(data)
    \/ CleanupLoop
    \/ MeshTick

SpecFixture == Init /\ [][NextFixture]_vars

\* ------------------------------------------------------------------------
\* The started manager with the threads that start() creates, while the
\* receive thread of its link handler takes lines of one-fragment messages
\* and puts them on receive_queue.
MaxDispatchRecv == 2

\* the body of _receive_loop for a line that is waiting: lines 196-201
TaskReceiveLine(frame) ==
    /\ threads["receive"] = "body"
    /\ serial_open
    /\ Len(signal_stats["A"].rssi) + signal_stats["A"].packet_loss < MaxDispatchRecv
    /\ HandlePacket("A", ParsePacket(frame, now))
    /\ threads' = [threads EXCEPT !["receive"] = "test"]
    /\ UNCHANGED <<mesh_vars, net_vars, now, running, send_queue, message_buffer,
                   air, wire, call, sends, sleep_until, last_iter, burst,
                   serial_open, stop_pc, closed_io, race_vars, stats_vars>>

NextDispatch ==
    \/ TaskStart
    \/ \E t \in Tasks : TaskTest(t)
    \/ TaskDiscovery
    \/ TaskHeartbeat
    \/ TaskCleanup
    \/ \E queued \in BOOLEAN : TaskSend(queued)
    \/ TaskReceive
    \/ TaskReceiveLine(IndexFrame(0, 1))

\* the steps of thread t of the started manager
TaskStep(t) ==
    \/ TaskTest(t)
    \/ t = "discovery" /\ TaskDiscovery
    \/ t = "heartbeat" /\ TaskHeartbeat
    \/ t = "cleanup" /\ TaskCleanup
    \/ t = "send" /\ \E queued \in BOOLEAN : TaskSend(queued)
    \/ t = "receive" /\ (TaskReceive \/ TaskReceiveLine(IndexFrame(0, 1)))

\* thread t can take a step
CanStep(t) ==
    \/ threads[t] = "test"
    \/ threads[t] = "body" /\ (t \in {"discovery", "heartbeat"} => ops < MaxTaskOps)

\* every thread that start() has created keeps running
SpecDispatch ==
    /\ Init
    /\ [][NextDispatch]_vars
    /\ WF_vars(TaskStart)
    /\ \A t \in Tasks : []<>(~CanStep(t)) \/ []<><<TaskStep(t)>>_vars

\* ------------------------------------------------------------------------
\* Properties

\* C1: every message on B's receive queue is the payload A submitted under
\* the id it was delivered for, and B never keeps a reassembly buffer that
\* holds all the fragments of its message: once the last fragment has
\* arrived, in whatever order, the message is delivered.  (SpecFrag)
C1_RoundTrip ==
    /\ Len(delivered_ids["B"]) = Len(receive_queue["B"])
    /\ \A k \in DOMAIN receive_queue["B"] :
          /\ delivered_ids["B"][k].message_id \in DOMAIN message_buffer["A"]
          /\ receive_queue["B"][k] =
                 message_buffer["A"][delivered_ids["B"][k].message_id]
    /\ \A id \in DOMAIN received_fragments["B"] :
          \A f \in DOMAIN received_fragments["B"][id] :
              Cardinality(DOMAIN received_fragments["B"][id]) <
                  received_fragments["B"][id][f].total_fragments

\* the three-fragment message delivered when its fragment 0 arrived last
C1_DeliveredOutOfOrder ==
    \E k \in DOMAIN receive_queue["B"] :
        /\ receive_queue["B"][k] = Messages[4]
        /\ delivered_ids["B"][k].last = 0

RECURSIVE PayloadBytes(_, _)
PayloadBytes(fragments, k) ==
    IF k = 0 THEN 0
    ELSE Len(fragments[k].payload) + PayloadBytes(fragments, k - 1)

RECURSIVE QueuedPackets(_, _)
QueuedPackets(queues, i) ==
    IF i = 0 THEN 0
    ELSE Len(queues[MessagePriority[i]]) + QueuedPackets(queues, i - 1)

\* C3: when send_message has run on a fresh handler with a message of L
\* characters, the three send queues hold ceil(L / MAX_PACKET_SIZE) packets
\* together and message_buffer holds the message under the id.  (Spec)
C3_QueuedPacketCount ==
    (call["A"].done /\ call["A"].fresh /\ sends["A"] = 1 /\ ~running["A"]) =>
        /\ QueuedPackets(send_queue["A"], Len(MessagePriority)) =
               (Len(call["A"].message) + MAX_PACKET_SIZE - 1) \div MAX_PACKET_SIZE
        /\ call["A"].message_id \in DOMAIN message_buffer["A"]
        /\ message_buffer["A"][call["A"].message_id] = call["A"].message

\* C4: every call of send_message gets an id of its own, so the calls made
\* so far have left that many entries in message_buffer.  (Spec)
C4_FreshIds ==
    Cardinality(DOMAIN message_buffer["A"]) = sends["A"]

\* C5: every packet held in send_queue[p] carries the priority field p.
\* (Spec)
C5_PriorityField ==
    \A p \in Priorities :
        \A k \in DOMAIN send_queue["A"][p] :
            send_queue["A"][p][k][2].priority = p

\* C6: a send-loop iteration that transmits a frame takes it from HIGH
\* whenever HIGH was not empty at the start of the iteration; it takes it
\* from MEDIUM only with HIGH empty, and from LOW only with HIGH and MEDIUM
\* both empty.  (SpecPrio)
C6_PriorityPreemption ==
    last_iter["A"].sent =>
        /\ ("HIGH" \in last_iter["A"].at_start => last_iter["A"].from = "HIGH")
        /\ (last_iter["A"].from = "MEDIUM" =>
               "HIGH" \notin last_iter["A"].at_start \cup last_iter["A"].at_select)
        /\ (last_iter["A"].from = "LOW" =>
               /\ "HIGH" \notin last_iter["A"].at_start \cup last_iter["A"].at_select
               /\ "MEDIUM" \notin last_iter["A"].at_start \cup last_iter["A"].at_select)

\* a frame was transmitted from HIGH while a LOW frame was waiting
C6_HighBeforeLow ==
    /\ last_iter["A"].sent
    /\ last_iter["A"].from = "HIGH"
    /\ "LOW" \in last_iter["A"].at_start

\* C7: the scheduler sends at most HIGH_BURST frames in a row from HIGH
\* while MEDIUM is not empty and at most MED_BURST frames in a row from
\* MEDIUM while LOW is not empty.  (Spec)
C7_BurstBound ==
    /\ (burst["A"].from = "HIGH" => burst["A"].count <= HIGH_BURST)
    /\ (burst["A"].from = "MEDIUM" => burst["A"].count <= MED_BURST)

\* C8: send_message enqueues every fragment of a multi-fragment message
\* without failing.  (Spec)
C8_AllFragmentsEnqueued ==
    (call["A"].done /\ Len(call["A"].fragments) > 1) => ~call["A"].raised

\* C9: a message that is never acknowledged is retransmitted at most
\* RETRY_LIMIT times.  (SpecRetry)
C9_RetryLimit ==
    signal_stats["A"].retransmissions <= RETRY_LIMIT * sends["A"]

\* C10: a retransmission keeps the id of the message and creates no entry
\* of message_buffer: the buffer never holds more ids than the application
\* has made calls of send_message.  (SpecRetry)
C10_SameMessageId ==
    Cardinality(DOMAIN message_buffer["A"]) <= sends["A"]

\* C11: once send_message has returned an id and more than ACK_TIMEOUT has
\* gone by with no acknowledgement, the next run of _check_pending_acks
\* (the first one of a send-loop iteration after the timeout) raises the
\* retransmissions counter and keeps the id in message_buffer.  (SpecRetry)
C11_RetransmitAfterTimeout ==
    [][(/\ SendLoop("A", {TRUE})
        /\ call["A"].done
        /\ ~call["A"].raised
        /\ signal_stats["A"].retransmissions = 0
        /\ now - call["A"].message_id[1] > ACK_TIMEOUT)
       => (/\ signal_stats'["A"].retransmissions > signal_stats["A"].retransmissions
           /\ call["A"].message_id \in DOMAIN message_buffer'["A"])]_vars

\* C12: a CRC-valid frame whose message_id has an entry in pending_acks
\* removes that entry and delivers nothing: the reassembly buffers and the
\* receive queue are as they were before the frame.  (SpecAck)
C12_ImplicitAck ==
    [][\A n \in Nodes : \A frame \in air[Peer(n)] :
          (/\ ReceiveLine(n, frame, TRUE, AckRecv)
           /\ frame.id \in Keys(pending_acks[n]))
          => (/\ frame.id \notin Keys(pending_acks'[n])
              /\ received_fragments' = received_fragments
              /\ receive_queue' = receive_queue
              /\ delivered_ids' = delivered_ids)]_vars

\* B has transmitted, has taken a valid frame, holds no tracker any more
\* and has delivered nothing: the frame was taken for the acknowledgement
C12_TrackerCancelled ==
    /\ air["B"] # {}
    /\ pending_acks["B"] = <<>>
    /\ Len(signal_stats["B"].rssi) > 0
    /\ receive_queue["B"] = <<>>
    /\ received_fragments["B"] = <<>>

\* C13: a frame whose crc field differs from crc32(payload) adds exactly 1
\* to packet_loss and changes nothing else (rssi and snr samples, pending
\* trackers, reassembly buffers, receive queue); a frame whose crc matches
\* leaves packet_loss as it was.  (SpecFrag)
C13_CrcFailure ==
    [][\A frame \in air["A"], intact \in BOOLEAN :
          ReceiveLine("B", frame, intact, MaxRecv) =>
              IF crc32(FromHex((IF intact THEN frame ELSE Corrupted(frame)).payload))
                     # (IF intact THEN frame ELSE Corrupted(frame)).crc
              THEN /\ signal_stats' =
                         [signal_stats EXCEPT !["B"].packet_loss = @ + 1]
                   /\ pending_acks' = pending_acks
                   /\ received_fragments' = received_fragments
                   /\ receive_queue' = receive_queue
              ELSE signal_stats'["B"].packet_loss = signal_stats["B"].packet_loss]_vars

\* B has dropped a frame for its crc while holding a partial reassembly
\* buffer and one sample of a valid frame
C13_FrameDropped ==
    /\ signal_stats["B"].packet_loss = 1
    /\ Len(signal_stats["B"].rssi) = 1
    /\ received_fragments["B"] # <<>>

\* what the reassembly buffers hold: per id and fragment index, the payload
BufferPayloads(buffers) ==
    [id \in DOMAIN buffers |->
        [f \in DOMAIN buffers[id] |-> buffers[id][f].payload]]

\* C14: a CRC-valid fragment that arrives again while the reassembly buffer
\* of its message is open and already holds it changes neither the payloads
\* the buffers hold nor the receive queue.  (SpecFrag)
C14_DuplicateIdempotent ==
    [][\A frame \in air["A"] :
          (/\ ReceiveLine("B", frame, TRUE, MaxRecv)
           /\ frame.id \in DOMAIN received_fragments["B"]
           /\ frame.frag \in DOMAIN received_fragments["B"][frame.id]
           /\ received_fragments["B"][frame.id][frame.frag].payload
                  = FromHex(frame.payload))
          => (/\ BufferPayloads(received_fragments'["B"])
                     = BufferPayloads(received_fragments["B"])
              /\ receive_queue' = receive_queue
              /\ delivered_ids' = delivered_ids)]_vars

\* B has handled two valid frames of the one message submitted, holds one
\* fragment of it and has delivered nothing: the second frame was a duplicate
C14_DuplicateReceived ==
    /\ sends["A"] = 1
    /\ Len(signal_stats["B"].rssi) = 2
    /\ receive_queue["B"] = <<>>
    /\ \E id \in DOMAIN received_fragments["B"] :
          Cardinality(DOMAIN received_fragments["B"][id]) = 1

\* C15: a message A submitted once is placed on B's receive queue once, also
\* when its frames arrive again after B has reassembled it: no id is
\* delivered twice, and B's queue never holds more messages than A has
\* submitted.  (SpecFrag)
C15_ExactlyOnce ==
    /\ \A j, k \in DOMAIN delivered_ids["B"] :
          j # k => delivered_ids["B"][j].message_id # delivered_ids["B"][k].message_id
    /\ Len(receive_queue["B"]) <= sends["A"]

\* C16: the messages tracked for sending (pending_acks and the payloads
\* kept in message_buffer) never number more than MAX_IN_FLIGHT.  (Spec)
C16_OutboxBounded ==
    /\ Cardinality(DOMAIN message_buffer["A"]) <= MAX_IN_FLIGHT
    /\ Len(pending_acks["A"]) <= MAX_IN_FLIGHT

\* C17: send_message to a destination that has no entry in the routing table
\* returns False, hands nothing to the link engine and leaves the routing
\* table, the nodes, the graph and the statistics as they were; to a
\* destination that has an entry it hands exactly one DATA envelope, whose
\* next_hop is the entry and whose destination, source and payload are the
\* call's.  (SpecMesh)
C17_NoRoute ==
    [][\A destination \in MeshIds, i \in MeshPool, raises \in BOOLEAN :
          MeshSendMessage(destination, Messages[i], "MEDIUM", raises)
          => IF destination \notin DOMAIN routing_table
             THEN /\ last_op'.result = FALSE
                  /\ handed' = handed
                  /\ routing_table' = routing_table
                  /\ nodes' = nodes
                  /\ network_graph' = network_graph
                  /\ stats' = stats
             ELSE /\ Len(handed') = Len(handed) + 1
                  /\ SubSeq(handed', 1, Len(handed)) = handed
                  /\ handed'[Len(handed')].data =
                        [type |-> "data", source |-> node_id,
                         destination |-> destination,
                         next_hop |-> routing_table[destination],
                         payload |-> Messages[i]]
                  /\ routing_table' = routing_table]_vars

\* the manager has routes, and its latest send_message named a destination
\* that has none and returned False
C17_NoRouteReported ==
    /\ last_op.op = "send_message"
    /\ last_op.destination \notin DOMAIN routing_table
    /\ routing_table # <<>>
    /\ ~last_op.raises
    /\ last_op.result = FALSE

\* C18: whatever DISCOVERY, HEARTBEAT, ROUTE_UPDATE and DATA messages the
\* manager has handled and whatever its sweeps have removed, its own id is
\* not a key of its routing table.  (SpecMesh)
C18_SelfNeverKey == node_id \notin DOMAIN routing_table

\* the manager has just handled a ROUTE_UPDATE of a node it has an edge to,
\* which carried an entry for the manager's own id
C18_SelfRouteOffered ==
    /\ last_op.op = "route_update"
    /\ last_op.data.node_id \in NodeIds(nodes)
    /\ {node_id, last_op.data.node_id} \in network_graph.edges
    /\ \E k \in DOMAIN last_op.data.routes :
            last_op.data.routes[k][1] = node_id

\* C19: every next hop stored in the routing table is the id of a node the
\* manager currently has a record of.  (SpecMesh)
C19_NextHopsKnown ==
    \A dest \in DOMAIN routing_table : routing_table[dest] \in NodeIds(nodes)

\* C20: every key of the routing table is a node of the current graph that
\* a shortest path of at most MAX_HOPS hops joins to the manager.  (SpecMesh)
C20_KeysWithinMaxHops ==
    \A dest \in DOMAIN routing_table :
        /\ ShortestPathLength(network_graph, node_id, dest).raised = "none"
        /\ ShortestPathLength(network_graph, node_id, dest).length <= MAX_HOPS

\* C21: while the manager has no record of any node but itself, its routing
\* table is empty.  (SpecMesh)
C21_NoNeighbourNoRoutes ==
    NodeIds(nodes) \subseteq {node_id} => routing_table = <<>>

\* C22: a sweep removes every node other than the manager whose last_seen
\* is more than NODE_TIMEOUT old: after the sweep the node has no record and
\* is no node of the graph, it is neither a key nor a next hop of the
\* routing table, and send_message to it returns False; the manager's own
\* record stays.  (SpecMesh)
C22_NodeEviction ==
    [][CleanupLoop =>
          /\ \A k \in DOMAIN nodes :
                (now - nodes[k].last_seen > NODE_TIMEOUT /\ nodes[k].id # node_id)
                => /\ nodes[k].id \notin NodeIds(nodes')
                   /\ nodes[k].id \notin network_graph'.nodes
                   /\ nodes[k].id \notin DOMAIN routing_table'
                   /\ \A dest \in DOMAIN routing_table' :
                         routing_table'[dest] # nodes[k].id
                   /\ \A raises \in BOOLEAN :
                         ~MeshSendResult(routing_table', nodes[k].id, raises)
          /\ node_id \in NodeIds(nodes) => node_id \in NodeIds(nodes')]_vars

\* a sweep has just removed a node that the routing table had a route to
C22_NeighbourEvicted ==
    /\ last_op.op = "cleanup"
    /\ last_op.inactive # <<>>
    /\ stats.route_updates >= 2
    /\ node_id \in NodeIds(nodes)

C23_NeverDelivered == receive_queue["B"] = <<>>

\* C24: in the mesh of managers that handle each other's DISCOVERY,
\* ROUTE_UPDATE and DATA envelopes, a DATA envelope that a manager has
\* forwarded is not forwarded again: no envelope on the air has been
\* forwarded more than once, which is within MAX_HOPS.  (SpecNet)
C24_LoopFreedom ==
    /\ \A e \in ether : e.hops <= 1
    /\ 1 <= MAX_HOPS

\* a manager has forwarded a DATA envelope, and the manager the forwarded
\* envelope names as next hop is running
C24_Forwarded ==
    \E e \in ether :
        /\ e.hops = 1
        /\ e.data.type = "data"
        /\ e.data.next_hop \in MeshIds
        /\ net[e.data.next_hop].running

\* C25: shutdown ordering.  Once stop() has closed the serial port, every
\* thread (discovery, heartbeat, cleanup, send, receive) has left its loop.
C25_ClosedLast ==
    ~serial_open => \A t \in Tasks : threads[t] = "exited"

\* the part of C25 that the order of stop() keeps: no thread uses the port
\* after its close
C25_NoClosedIo == closed_io = {}

\* C26: single-owner state.  No interleaving of the receive path
\* (_handle_packet) and the send and retry path (_send_packet,
\* _check_pending_acks) on pending_acks reaches an error: neither thread
\* deletes a tracker the other has deleted.
C26_NoThreadError == thread_errors = {}

\* the last 100 entries of a list, or all of it
LastOf(q) == IF Len(q) > 100 THEN SubSeq(q, Len(q) - 99, Len(q)) ELSE q

ValidArrived == SelectSeq(arrived, LAMBDA f : f.valid)

\* C27: the rssi and snr buffers have the same length, at most 100, and
\* hold the readings of the most recent CRC-valid frames in their order of
\* arrival.  (SpecStats)
C27_StatsBounded ==
    /\ Len(signal_stats["B"].rssi) = Len(signal_stats["B"].snr)
    /\ Len(signal_stats["B"].rssi) <= 100
    /\ signal_stats["B"].rssi = [i \in DOMAIN LastOf(ValidArrived) |-> LastOf(ValidArrived)[i].rssi]
    /\ signal_stats["B"].snr = [i \in DOMAIN LastOf(ValidArrived) |-> LastOf(ValidArrived)[i].snr]

\* more than 100 valid frames and a frame with a wrong crc have arrived, and
\* the buffers are full
C27_WindowFull ==
    /\ Len(ValidArrived) > 100
    /\ Len(ValidArrived) < Len(arrived)
    /\ Len(signal_stats["B"].rssi) = 100

\* C28: edge weights order links by strength.  Of two neighbours whose
\* rssi values are r1 > r2, both at most 0, the edge to the one with r1
\* (the stronger link) has the smaller weight.  (SpecWeight)
C28_StrongerIsLighter ==
    \A a, b \in Neighbours(network_graph, node_id) :
        (/\ NodeOf(nodes, a).rssi > NodeOf(nodes, b).rssi
         /\ NodeOf(nodes, a).rssi <= 0)
        => Lighter(WeightOf(nodes, a), WeightOf(nodes, b))

\* what line 299 gives instead: the stronger link has the larger weight
C28_StrongerIsHeavier ==
    \A a, b \in Neighbours(network_graph, node_id) :
        (/\ NodeOf(nodes, a).rssi > NodeOf(nodes, b).rssi
         /\ NodeOf(nodes, a).rssi <= 0)
        => Lighter(WeightOf(nodes, b), WeightOf(nodes, a))

\* C29: once the receive thread has taken a frame for the acknowledgement
\* of message id m, no later step of the send loop, the receive path or
\* the retry sweep puts a tracker for m back or retransmits m.  (SpecDrain,
\* SpecRace)
C29_NoRetransmitAfterAck ==
    [][\A m \in acked :
          /\ m \in Keys(pending_acks'["A"]) => m \in Keys(pending_acks["A"])
          /\ (/\ sweep.active
              /\ sweep.k <= Len(sweep.items)
              /\ sweep.items[sweep.k].message_id = m)
             => signal_stats'["A"].retransmissions = signal_stats["A"].retransmissions]_vars

\* C30: a CRC-valid frame with fragment_index >= fragment_total is dropped:
\* no reassembly buffer holds a fragment whose index is outside
\* 0..total_fragments - 1.  (SpecIndex)
C30_OutOfRangeDropped ==
    \A id \in DOMAIN received_fragments["B"] :
        \A i \in DOMAIN received_fragments["B"][id] :
            i < received_fragments["B"][id][i].total_fragments

\* a buffer holds both fragments of a two-fragment message and nothing
\* has been delivered: a frame with index 2 came between them
C30_StuckBuffer ==
    \E id \in DOMAIN received_fragments["B"] :
        /\ {0, 1} \subseteq DOMAIN received_fragments["B"][id]
        /\ \A i \in {0, 1} : received_fragments["B"][id][i].total_fragments = 2
        /\ receive_queue["B"] = <<>>

\* C31: a frame whose fragment_total differs from that of the fragments
\* already buffered for its message_id discards the buffer of that id,
\* adds 1 to packet_loss and delivers nothing.  (SpecIndex)
C31_TotalMismatchDiscards ==
    [][\A frame \in IndexFrames :
          (/\ ReceiveLine("B", frame, TRUE, MaxIndexRecv)
           /\ frame.id \in DOMAIN received_fragments["B"]
           /\ \E i \in DOMAIN received_fragments["B"][frame.id] :
                 received_fragments["B"][frame.id][i].total_fragments # frame.total)
          => (/\ frame.id \notin DOMAIN received_fragments'["B"]
              /\ signal_stats'["B"].packet_loss = signal_stats["B"].packet_loss + 1
              /\ receive_queue' = receive_queue)]_vars

\* the weaker half of C31: such a frame at least delivers nothing
C31_NoMixedDelivery ==
    [][\A frame \in IndexFrames :
          (/\ ReceiveLine("B", frame, TRUE, MaxIndexRecv)
           /\ frame.id \in DOMAIN received_fragments["B"]
           /\ \E i \in DOMAIN received_fragments["B"][frame.id] :
                 received_fragments["B"][frame.id][i].total_fragments # frame.total)
          => receive_queue' = receive_queue]_vars

\* C32: every reassembly buffer is eventually destroyed, by the
\* reassembly of its message or by a sweep once it has been idle for
\* REASSEMBLY_TTL.  (SpecTtl)
C32_BufferDestroyed ==
    (received_fragments["B"] # <<>>) ~> (received_fragments["B"] = <<>>)

\* the same as a state predicate: no buffer has been idle for longer than
\* REASSEMBLY_TTL
C32_NoStaleBuffer ==
    \A id \in DOMAIN received_fragments["B"] :
        \E i \in DOMAIN received_fragments["B"][id] :
            now - received_fragments["B"][id][i].timestamp <= REASSEMBLY_TTL

\* C33: the first DISCOVERY from X # self on a started manager leaves X in
\* the routing table with next hop X, and a ROUTE_UPDATE has been handed to
\* the link for the change.  (SpecMesh)
C33_RouteAfterFirstDiscovery ==
    [][\A data \in DiscoveryData :
          (/\ HandleDiscovery(data)
           /\ data.node_id # node_id
           /\ data.node_id \notin NodeIds(nodes))
          => (/\ data.node_id \in DOMAIN routing_table'
              /\ routing_table'[data.node_id] = data.node_id
              /\ Len(handed') = Len(handed) + 1
              /\ handed'[Len(handed')].data.type = "route_update")]_vars

\* what the code does instead: the first DISCOVERY from X leaves the table
\* as it was and X enters it at the next rebuild
C33_RouteAfterNextRebuild ==
    [][\A data \in DiscoveryData :
          (/\ HandleDiscovery(data)
           /\ data.node_id # node_id
           /\ data.node_id \notin NodeIds(nodes))
          => (/\ data.node_id \notin DOMAIN routing_table'
              /\ {node_id, data.node_id} \in network_graph'.edges)]_vars

\* C34: graph and neighbour table stay in step.  In every reachable state,
\* also of a manager that handles messages before start() has registered
\* its own record, the nodes of the network graph are the ids of the
\* neighbour table.  (SpecFixture)
C34_GraphMatchesTable == network_graph.nodes = NodeIds(nodes)

\* the same for a manager that handles messages only once it is started
C34_StartedGraphMatchesTable ==
    mesh_running => network_graph.nodes = NodeIds(nodes)

\* the ROUTE_UPDATE data comes from a neighbour the manager has a record
\* of and reaches in fewer than MAX_HOPS hops
FromNearNeighbour(data) ==
    /\ data.node_id # node_id
    /\ data.node_id \in NodeIds(nodes)
    /\ ShortestPathLength(network_graph, node_id, data.node_id).raised = "none"
    /\ ShortestPathLength(network_graph, node_id, data.node_id).length < MAX_HOPS

\* C35: a ROUTE_UPDATE from such a neighbour X sets the routing table
\* entry of every advertised dest # self to X, the advertising neighbour,
\* whatever next hop the update names.  (SpecMesh)
C35_RouteViaAdvertiser ==
    [][\A data \in RouteUpdateData :
          (HandleRouteUpdate(data) /\ FromNearNeighbour(data))
          => \A k \in DOMAIN data.routes :
                data.routes[k][1] # node_id
                => (/\ data.routes[k][1] \in DOMAIN routing_table'
                    /\ routing_table'[data.routes[k][1]] = data.node_id)]_vars

\* what line 322 stores: the next hop named in the last entry for dest
C35_RouteViaAdvertisedHop ==
    [][\A data \in RouteUpdateData :
          (HandleRouteUpdate(data) /\ FromNearNeighbour(data))
          => \A k \in DOMAIN data.routes :
                (/\ data.routes[k][1] # node_id
                 /\ \A j \in DOMAIN data.routes :
                        j > k => data.routes[j][1] # data.routes[k][1])
                => (/\ data.routes[k][1] \in DOMAIN routing_table'
                    /\ routing_table'[data.routes[k][1]] = data.routes[k][2])]_vars

\* what C36 says of one _handle_data step on the envelope data
ForwardedOnce(data) ==
    IF /\ data.destination # node_id
       /\ data.next_hop = node_id
       /\ data.destination \in DOMAIN routing_table
    THEN /\ handed' = Append(handed,
                [data |-> [data EXCEPT !.next_hop = routing_table[data.destination]],
                 priority |-> "MEDIUM"])
         /\ stats'.messages_forwarded = stats.messages_forwarded + 1
    ELSE /\ handed' = handed
         /\ stats'.messages_forwarded = stats.messages_forwarded

\* C36: a DATA envelope with destination # self and next_hop = self whose
\* destination is in the routing table is handed to the link once, at
\* MEDIUM, with next_hop rewritten to the table's entry, and
\* messages_forwarded grows by exactly 1; in every other case nothing is
\* handed over and messages_forwarded stays.  (SpecMesh)
C36_Forwarding ==
    [][\A data \in DataData, raises \in BOOLEAN :
          HandleData(data, raises) => ForwardedOnce(data)]_vars

\* the same for the calls in which the link handler's send_message returns
C36_ForwardingWhenQueued ==
    [][\A data \in DataData : HandleData(data, FALSE) => ForwardedOnce(data)]_vars

\* C37: on a started manager every message that the link handler has put
\* on its receive queue is eventually taken from it by the routing layer.
\* (SpecDispatch)
C37_EventuallyDispatched ==
    (receive_queue["A"] # <<>>) ~> (receive_queue["A"] = <<>>)

\* no step of the started manager or of its threads takes a message from
\* the receive queue
C37_NeverConsumed ==
    [][SubSeq(receive_queue'["A"], 1, Len(receive_queue["A"])) = receive_queue["A"]]_vars

\* C38: every message that send_message has accepted, the empty one
\* included, was cut into at least one frame, and every frame carries a
\* fragment total of at least 1.  (SpecFrag)
C38_AtLeastOneFrame ==
    sends["A"] > 0 =>
        /\ Len(call["A"].fragments) >= 1
        /\ \A k \in DOMAIN call["A"].fragments :
              call["A"].fragments[k].total_fragments >= 1

\* the same for the messages that are not empty
C38_FrameIfNotEmpty ==
    (sends["A"] > 0 /\ call["A"].message # <<>>) =>
        /\ Len(call["A"].fragments) >= 1
        /\ \A k \in DOMAIN call["A"].fragments :
              call["A"].fragments[k].total_fragments >= 1


C40_RequeuedWhereTaken ==
    [][WriteFailed =>
          /\ pending_acks'["A"] = pending_acks["A"]
          /\ running'["A"]
          /\ Len(send_queue'["A"][last_iter'["A"].from]) =
                 Len(send_queue["A"][last_iter'["A"].from])]_vars

\* an iteration whose radio write fails adds no ack tracker, leaves the
\* loop running and keeps the frame queued: on MEDIUM, the value of the
\* frame's priority field, whichever queue it was taken from
C40_RequeuedOnMedium ==
    [][WriteFailed =>
          /\ pending_acks'["A"] = pending_acks["A"]
          /\ running'["A"]
          /\ QueuedFrames("A")' = QueuedFrames("A")
          /\ (last_iter'["A"].from # "MEDIUM" =>
                 /\ Len(send_queue'["A"]["MEDIUM"]) = Len(send_queue["A"]["MEDIUM"]) + 1
                 /\ Len(send_queue'["A"][last_iter'["A"].from]) =
                        Len(send_queue["A"][last_iter'["A"].from]) - 1)]_vars


\* the only submission of A was made at HIGH and its frame was transmitted
\* from the MEDIUM queue, after a write that failed
C40_SentFromMedium ==
    /\ sends["A"] = 1
    /\ call["A"].priority = "HIGH"
    /\ last_iter["A"].sent
    /\ last_iter["A"].from = "MEDIUM"
    /\ Len(wire["A"]) = 1

====
